---- MODULE Spec2Model ----
(***************************************************************************)
(* A model of the story-twister browser client: the countdown timer hook   *)
(* (useTimer), the poll loop hook (usePoll), the storage adapter and API   *)
(* client (api/client.ts) and the story room page (StoryRoom.tsx).         *)
(*                                                                         *)
(* Each component has its own specification over the shared variables:     *)
(*   SpecTimer  useTimer                                                    *)
(*   SpecPoll   usePoll                                                     *)
(*   SpecStorage  the storage adapter                                       *)
(*   SpecApi    getEventHeaders, apiRequest, apiClient.admin, raw fetches   *)
(*   SpecRoom   StoryRoom (loadStory, handleSendSentence) and its server;   *)
(*              SpecRoomFair adds the scheduling of the poll loop           *)
(*   SpecTurns, SpecSend, SpecTwist, SpecChat  parts of StoryRoom           *)
(*   SpecClassify, SpecSummary, SpecLeaderboard, SpecTeamSelect  the pages  *)
(*   SpecAdminAuth  AdminLogin and AdminAuthWrapper                         *)
(*   SpecDashboard  AdminDashboard                                          *)
(* The variables of the other components keep their initial values.        *)
(***************************************************************************)
EXTENDS Integers, Sequences, FiniteSets, TLC

(***************************************************************************)
(* Bounds of the model.                                                    *)
(***************************************************************************)
MaxDuration == 6
MaxTicks == 8
MaxPeriods == 3
MaxToggles == 2
MaxLen == 2
MaxLoads == 2
MaxInput == 1
MaxCreates == 2
MaxTurns == 1
MaxWelcome == 1
MaxFetched == 3
MaxMessages == 2
MaxContributions == 4
MaxTeams == 3
MaxJoinLen == 3
MaxSessions == 2
MaxDashLoads == 2

\* "AI add unexpected twists every 2 user contributions"
TwistEvery == 2

VARIABLES
    \* ---- useTimer (src/unnamed/part_008) ----
    duration,        \* options.duration
    autoStart,       \* options.autoStart
    timeLeft,        \* useState(duration)
    isRunning,       \* useState(autoStart)
    isExpired,       \* useState(false)
    intervalArmed,   \* intervalRef holds a live setInterval handle
    showAnalyzerModal, \* what StoryRoom's onExpire callback sets
    expireCalls,     \* history: invocations of onExpire since construction/reset
    ticks,           \* history: interval ticks since construction/reset
    \* ---- usePoll (src/unnamed/part_007) ----
    pollMounted,     \* the component using the hook is mounted
    pollEnabled,     \* options.enabled
    pollArmed,       \* the setInterval handle of the polling effect is live
    pollInFlight,    \* invocations of the callback awaited inside a tick
    pollCalls,       \* history: callback invocations since enabled last changed
    pollPeriods,     \* history: interval periods elapsed since enabled last changed
    pollFailures,    \* history: invocations that threw or rejected
    pollToggles,     \* history: changes of options.enabled so far
    pollCallsAfterFailure, \* history: invocations started after a failed one
    pollLateCalls,   \* history: invocations the loop started while disabled
                     \* or unmounted
    \* ---- storage adapter (src/frontend2/src/api/client.ts) ----
    ls,              \* window.localStorage: key -> string, or Null when absent
    written,         \* history: per key, what the adapter last wrote
    lastCall,        \* history: the last call of the storage adapter
    \* ---- API client and admin pages ----
    storageDown,     \* localStorage throws on every access (blocked or full)
    lastOp,          \* history: the last client operation and what it sent
    \* ---- the server, as seen from StoryRoom ----
    srvStories,      \* number of active stories the list endpoint returns
    srvTurns,        \* the turns of the story the list endpoint returns first
    srvStatus,       \* session_status of the team on the leaderboard
    \* ---- StoryRoom (src/frontend2/src/pages/StoryRoom.tsx) ----
    messages,        \* useState<StoryMessage[]>([])
    currentStory,    \* useState(null): Null or the story id
    currentSentence, \* useState(""): the input field
    isLoading,       \* useState(false)
    sessionStatus,   \* useState("active")
    loads,           \* the loadStory invocations in flight, by slot
    send,            \* the handleSendSentence invocation in progress or last done
    welcomeTimers,   \* the 1000 ms welcome timeouts of loadStory not yet fired
    staleShown,      \* history: the loadStory that completed last showed fewer
                     \* server turns than the list it replaced
    createRequests,  \* history: create-story requests sent during the visit,
                     \* counted up to MaxCreates
    \* ---- the page that is open ----
    \* The pages other than the story room are never open together: the
    \* state of the one that is open is held in these cells, which are
    \* named below page by page.  A cell no open page uses holds Closed.
    pageCell1,
    pageCell2,
    pageCell3,
    pageCell4,
    pageCell5,
    pageCell6,
    pageCell7,
    pageCell8,
    pageCell9,
    pageCell10,
    pageCell11

timerVars == <<duration, autoStart, timeLeft, isRunning, isExpired,
               intervalArmed, showAnalyzerModal, expireCalls, ticks>>

pollVars == <<pollMounted, pollEnabled, pollArmed, pollInFlight, pollCalls,
              pollPeriods, pollFailures, pollToggles,
              pollCallsAfterFailure, pollLateCalls>>

storageVars == <<ls, written, lastCall>>

apiVars == <<storageDown, lastOp>>

serverVars == <<srvStories, srvTurns, srvStatus>>

roomVars == <<messages, currentStory, currentSentence, isLoading,
              sessionStatus, loads, send, welcomeTimers, staleShown,
              createRequests>>

Closed == "closed"

\* ---- Leaderboard (src/frontend2/src/pages/Leaderboard.tsx) ----
\* response.teams the leaderboard endpoint answers with
lbResponse == pageCell1
\* useState<Team[]>([])
teams == pageCell2
\* useState(true)
lbIsLoading == pageCell3
\* loadTeams: "idle" (page not open), "request", "done",
\* "failed"
lbPc == pageCell4

\* ---- StoryRoom, moderator controls ----
\* searchParams.get("mod") === "true"
isModerator == pageCell1
\* the handleInjectTwist invocation in progress
twist == pageCell2

\* ---- StorySummary (src/frontend2/src/pages/StorySummary.tsx) ----
\* useParams().teamId
smRoute == pageCell1
\* per team, the number of turns of its active story
\* (0: the team has no active story)
smServer == pageCell2
\* loadSummary: "idle" (page not open), "mount", "list",
\* "turns", "done", "failed"
smPc == pageCell3
\* history: team_code of the list request sent
smListTeam == pageCell4
\* stories[0]: the team whose story the list returned
smStory == pageCell5
\* useState(""): the story text, one part per turn
summary == pageCell6
\* useState({sentences, twists, wordCount, contributors})
stats == pageCell7
\* useState(true)
smIsLoading == pageCell8

\* ---- twist classification of one server turn in both views ----
\* the server turn
clsTurn == pageCell1
\* type of the message StoryRoom.loadStory made of it
clsRoom == pageCell2
\* what StorySummary.loadSummary took it for
clsSummary == pageCell3

\* ---- TeamSelect (src/unnamed/part_014) ----
\* useState(""): the team field of the join form
teamId == pageCell1
\* useState(""): the nickname field of the join form
tempUsername == pageCell2
\* useState(false)
isJoining == pageCell3
\* handleJoinTeam: "idle" (page not open), "form",
\* "rejected", "joining", "room", "failed"
tsPc == pageCell4
\* history: the headers of the join request sent
joinRequest == pageCell5
\* history: "none", "ok" or "error" of the join request
joinOutcome == pageCell6
\* the team of the /room/<team> route navigated to
navigatedTo == pageCell7
\* what setStoredTeamId and setUsername were given
legacy == pageCell8

\* ---- AdminLogin and AdminAuthWrapper ----
\* the admin route shown: "none", "login" or "protected"
adminRoute == pageCell1
\* AdminAuthWrapper useState(false)
isAuthenticated == pageCell2
\* AdminAuthWrapper useState(true)
isChecking == pageCell3
\* the checkAuth call of the mounted wrapper: its
\* position, the token it read, the answer it got
checkAuth == pageCell4
\* handleTokenLogin: its position and the trimmed token
\* it sent for validation
adminLogin == pageCell5

\* ---- AdminDashboard (src/unnamed/part_014) ----
\* the ids of the sessions the server has, in its order
srvSessions == pageCell1
\* useState([]): the ids of the displayed sessions
sessions == pageCell2
\* useState(true)
dashIsLoading == pageCell3
\* useState(false)
showDeleteModal == pageCell4
\* useState(null)
sessionToDelete == pageCell5
\* useState(null)
deletingSessionId == pageCell6
\* the loadDashboardData calls in flight
dashLoads == pageCell7
\* the number of pending setTimeout(loadDashboardData,
\* 1000) calls
refreshTimer == pageCell8
\* the delete request: "none", "sent", or answered
\* "ok" or "failed" and not yet delivered
deleteRequest == pageCell9
\* history: the ids whose delete request succeeded
deleted == pageCell10
\* history: how the last confirmDeleteSession settled
deleteOutcome == pageCell11

leaderboardVars == <<lbResponse, teams, lbIsLoading, lbPc>>

chatVars == <<isModerator, twist>>

summaryVars == <<smRoute, smServer, smPc, smListTeam, smStory, summary, stats,
                 smIsLoading>>

classifyVars == <<clsTurn, clsRoom, clsSummary>>

teamSelectVars == <<teamId, tempUsername, isJoining, tsPc, joinRequest,
                    joinOutcome, navigatedTo, legacy>>

adminAuthVars == <<adminRoute, isAuthenticated, isChecking, checkAuth,
                   adminLogin>>

dashboardVars == <<srvSessions, sessions, dashIsLoading, showDeleteModal,
                   sessionToDelete, deletingSessionId, dashLoads,
                   refreshTimer, deleteRequest, deleted, deleteOutcome>>

\* The cells a page does not use
unusedByLeaderboard ==
    <<pageCell5, pageCell6, pageCell7,
      pageCell8, pageCell9, pageCell10, pageCell11>>
unusedByChat ==
    <<pageCell3, pageCell4, pageCell5, pageCell6,
      pageCell7, pageCell8, pageCell9, pageCell10, pageCell11>>
unusedBySummary == <<pageCell9, pageCell10, pageCell11>>
unusedByClassify ==
    <<pageCell4, pageCell5, pageCell6, pageCell7,
      pageCell8, pageCell9, pageCell10, pageCell11>>
unusedByTeamSelect == <<pageCell9, pageCell10, pageCell11>>
unusedByAdminAuth ==
    <<pageCell6, pageCell7, pageCell8,
      pageCell9, pageCell10, pageCell11>>
unusedByDashboard == <<>>

pageVars == <<pageCell1, pageCell2, pageCell3, pageCell4, pageCell5, pageCell6,
              pageCell7, pageCell8, pageCell9, pageCell10, pageCell11>>

vars == <<timerVars, pollVars, storageVars, apiVars, serverVars, roomVars,
          pageVars>>

notTimer == <<pollVars, storageVars, apiVars, serverVars, roomVars, pageVars>>
notPoll == <<timerVars, storageVars, apiVars, serverVars, roomVars, pageVars>>
notStorage == <<timerVars, pollVars, apiVars, serverVars, roomVars, pageVars>>
notApi == <<timerVars, pollVars, written, lastCall, serverVars, roomVars,
            pageVars>>
notRoom == <<timerVars, pollVars, storageVars, apiVars, pageVars>>
notPages == <<timerVars, pollVars, storageVars, apiVars, serverVars, roomVars>>

\* No handleInjectTwist is in progress
IdleTwist == [pc |-> "idle", slot |-> 0]

NoStats == [sentences |-> 0, twists |-> 0, wordCount |-> 0, contributors |-> 0]

NoLegacy == [teamId |-> <<"null">>, username |-> <<"null">>]

NoCheckAuth == [pc |-> "idle", token |-> <<"null">>, answer |-> "none"]

NoAdminLogin == [pc |-> "form", token |-> <<"null">>, answer |-> "none"]

\* The number of cells a page uses
CellsUsed(page) ==
    CASE page = "leaderboard" -> 4
      [] page = "chat" -> 2
      [] page = "summary" -> 8
      [] page = "classify" -> 3
      [] page = "teamSelect" -> 8
      [] page = "adminAuth" -> 5
      [] page = "dashboard" -> 11
      [] OTHER -> 0

\* Every cell the named page does not use is closed
PagesIdleBut(page) ==
    /\ IF CellsUsed(page) >= 1 THEN TRUE ELSE pageCell1 = Closed
    /\ IF CellsUsed(page) >= 2 THEN TRUE ELSE pageCell2 = Closed
    /\ IF CellsUsed(page) >= 3 THEN TRUE ELSE pageCell3 = Closed
    /\ IF CellsUsed(page) >= 4 THEN TRUE ELSE pageCell4 = Closed
    /\ IF CellsUsed(page) >= 5 THEN TRUE ELSE pageCell5 = Closed
    /\ IF CellsUsed(page) >= 6 THEN TRUE ELSE pageCell6 = Closed
    /\ IF CellsUsed(page) >= 7 THEN TRUE ELSE pageCell7 = Closed
    /\ IF CellsUsed(page) >= 8 THEN TRUE ELSE pageCell8 = Closed
    /\ IF CellsUsed(page) >= 9 THEN TRUE ELSE pageCell9 = Closed
    /\ IF CellsUsed(page) >= 10 THEN TRUE ELSE pageCell10 = Closed
    /\ IF CellsUsed(page) >= 11 THEN TRUE ELSE pageCell11 = Closed

\* None of the other pages is open
PagesIdle == PagesIdleBut("none")

(***************************************************************************)
(* useTimer                                                                *)
(***************************************************************************)

\* Mutant of TimerEffect: the interval is never cleared.
TimerEffectNoCleanup(running) == TRUE

\* The timer effect, run after every render in which isRunning changed:
\* it arms a 1000 ms interval when running, and its cleanup clears it.
TimerEffect(running) == running

\* Mutant of TimerUpdater: the boundary test is prev <= 0, so the tick that
\* takes the counter from 1 to 0 does not expire the timer.
TimerUpdaterLate(prev) ==
    IF prev <= 0
    THEN [timeLeft |-> 0, expired |-> TRUE]
    ELSE [timeLeft |-> prev - 1, expired |-> FALSE]

\* The updater passed to setTimeLeft by the interval callback.
TimerUpdater(prev) ==
    IF prev <= 1
    THEN [timeLeft |-> 0, expired |-> TRUE]
    ELSE [timeLeft |-> prev - 1, expired |-> FALSE]

\* The timer as constructed by StoryRoom and left alone.
TimerIdle ==
    /\ duration = 1
    /\ autoStart = TRUE
    /\ timeLeft = 1
    /\ isRunning = TRUE
    /\ isExpired = FALSE
    /\ intervalArmed = TRUE
    /\ showAnalyzerModal = FALSE
    /\ expireCalls = 0
    /\ ticks = 0

TimerInit ==
    /\ duration \in 1..MaxDuration
    /\ autoStart \in BOOLEAN
    /\ timeLeft = duration
    /\ isRunning = autoStart
    /\ isExpired = FALSE
    /\ intervalArmed = TimerEffect(autoStart)
    /\ showAnalyzerModal = FALSE
    /\ expireCalls = 0
    /\ ticks = 0

\* One firing of the 1000 ms interval, with the render and effect that follow.
TimerTick ==
    /\ intervalArmed
    /\ ticks < MaxTicks
    /\ LET r == TimerUpdater(timeLeft) IN
        /\ timeLeft' = r.timeLeft
        /\ isRunning' = IF r.expired THEN FALSE ELSE isRunning
        /\ isExpired' = IF r.expired THEN TRUE ELSE isExpired
        /\ expireCalls' = IF r.expired THEN expireCalls + 1 ELSE expireCalls
        /\ showAnalyzerModal' = IF r.expired THEN TRUE ELSE showAnalyzerModal
        /\ intervalArmed' = TimerEffect(isRunning')
    /\ ticks' = ticks + 1
    /\ UNCHANGED <<duration, autoStart>>
    /\ UNCHANGED notTimer

\* Mutant of TimerStart: start lacks its guard.
TimerStartUnguarded ==
    /\ isRunning' = TRUE
    /\ intervalArmed' = TimerEffect(isRunning')
    /\ UNCHANGED <<duration, autoStart, timeLeft, isExpired,
                   showAnalyzerModal, expireCalls, ticks>>
    /\ UNCHANGED notTimer

\* start: if (!isExpired && timeLeft > 0) setIsRunning(true)
TimerStart ==
    /\ isRunning' = IF ~isExpired /\ timeLeft > 0 THEN TRUE ELSE isRunning
    /\ intervalArmed' = TimerEffect(isRunning')
    /\ UNCHANGED <<duration, autoStart, timeLeft, isExpired,
                   showAnalyzerModal, expireCalls, ticks>>
    /\ UNCHANGED notTimer

TimerPause ==
    /\ isRunning' = FALSE
    /\ intervalArmed' = TimerEffect(isRunning')
    /\ UNCHANGED <<duration, autoStart, timeLeft, isExpired,
                   showAnalyzerModal, expireCalls, ticks>>
    /\ UNCHANGED notTimer

\* Mutant of TimerReset: the timer always runs after a reset.
TimerResetResumes ==
    /\ timeLeft' = duration
    /\ isRunning' = TRUE
    /\ isExpired' = FALSE
    /\ intervalArmed' = TimerEffect(isRunning')
    /\ expireCalls' = 0
    /\ ticks' = 0
    /\ UNCHANGED <<duration, autoStart, showAnalyzerModal>>
    /\ UNCHANGED notTimer

TimerReset ==
    /\ timeLeft' = duration
    /\ isRunning' = autoStart
    /\ isExpired' = FALSE
    /\ intervalArmed' = TimerEffect(isRunning')
    /\ expireCalls' = 0
    /\ ticks' = 0
    /\ UNCHANGED <<duration, autoStart, showAnalyzerModal>>
    /\ UNCHANGED notTimer

TimerNext == TimerTick \/ TimerStart \/ TimerPause \/ TimerReset

(***************************************************************************)
(* usePoll                                                                 *)
(***************************************************************************)

\* Mutant of PollCatch: a failed tick cancels the interval.
PollCatchCancels(armed) == FALSE

\* The catch block of tick: it logs and leaves the interval as it is.
PollCatch(armed) == armed

\* Mutant of PollEffect: the interval is set up but tick is not run at once.
PollEffectNoImmediate(enabled) ==
    [armed |-> enabled, started |-> 0]

\* The polling effect: nothing when disabled; otherwise one immediate tick
\* and a live interval.
PollEffect(enabled) ==
    IF ~enabled
    THEN [armed |-> FALSE, started |-> 0]
    ELSE [armed |-> TRUE, started |-> 1]

\* Mutant of PollCleanup: the effect returns no cleanup.
PollCleanupMissing(armed) == armed

\* The cleanup of the polling effect: clearInterval(id).
PollCleanup(armed) == FALSE

\* The poll loop of a component that never enables it.
PollIdle ==
    /\ pollMounted = TRUE
    /\ pollEnabled = FALSE
    /\ pollArmed = FALSE
    /\ pollInFlight = 0
    /\ pollCalls = 0
    /\ pollPeriods = 0
    /\ pollFailures = 0
    /\ pollToggles = 0
    /\ pollCallsAfterFailure = 0
    /\ pollLateCalls = 0

PollInit ==
    /\ pollMounted = TRUE
    /\ pollEnabled \in BOOLEAN
    /\ pollArmed = PollEffect(pollEnabled).armed
    /\ pollInFlight = PollEffect(pollEnabled).started
    /\ pollCalls = PollEffect(pollEnabled).started
    /\ pollPeriods = 0
    /\ pollFailures = 0
    /\ pollToggles = 0
    /\ pollCallsAfterFailure = 0
    /\ pollLateCalls = 0

\* Mutant of PollTickStarts: tick skips its work while an invocation is
\* pending.
PollTickStartsExclusive(armed, inFlight) == armed /\ inFlight = 0

\* setInterval(tick, interval): a live interval runs tick at every period,
\* and tick calls the callback whatever is still pending
PollTickStarts(armed, inFlight) == armed

\* One interval period goes by; a live interval calls tick, which calls the
\* saved callback.  The callback either throws at once (caught by tick) or
\* returns a promise that tick awaits.
PollPeriodElapses ==
    /\ pollPeriods < MaxPeriods
    /\ pollPeriods' = pollPeriods + 1
    /\ IF PollTickStarts(pollArmed, pollInFlight)
       THEN /\ pollCalls' = pollCalls + 1
            /\ pollLateCalls' =
                  IF pollEnabled /\ pollMounted THEN pollLateCalls
                  ELSE pollLateCalls + 1
            /\ pollCallsAfterFailure' =
                  IF pollFailures > 0 THEN pollCallsAfterFailure + 1
                  ELSE pollCallsAfterFailure
            /\ \E throws \in BOOLEAN :
                  IF throws
                  THEN /\ pollFailures' = pollFailures + 1
                       /\ pollArmed' = PollCatch(pollArmed)
                       /\ UNCHANGED pollInFlight
                  ELSE /\ pollInFlight' = pollInFlight + 1
                       /\ UNCHANGED <<pollFailures, pollArmed>>
       ELSE UNCHANGED <<pollCalls, pollCallsAfterFailure, pollFailures,
                        pollArmed, pollInFlight, pollLateCalls>>
    /\ UNCHANGED <<pollMounted, pollEnabled, pollToggles>>
    /\ UNCHANGED notPoll

\* An awaited invocation settles; a rejection is caught inside tick.
PollSettle ==
    /\ pollInFlight > 0
    /\ pollInFlight' = pollInFlight - 1
    /\ \E rejects \in BOOLEAN :
          IF rejects
          THEN /\ pollFailures' = pollFailures + 1
               /\ pollArmed' = PollCatch(pollArmed)
          ELSE UNCHANGED <<pollFailures, pollArmed>>
    /\ UNCHANGED <<pollMounted, pollEnabled, pollCalls, pollPeriods,
                   pollCallsAfterFailure, pollToggles, pollLateCalls>>
    /\ UNCHANGED notPoll

\* The enabled option changes: the cleanup of the old effect runs, then the
\* effect runs again with the new value.
PollSetEnabled ==
    /\ pollMounted
    /\ pollToggles < MaxToggles
    /\ pollToggles' = pollToggles + 1
    /\ pollEnabled' = ~pollEnabled
    /\ LET cleaned == IF pollEnabled THEN PollCleanup(pollArmed) ELSE pollArmed
           e == PollEffect(pollEnabled')
       IN /\ pollArmed' = (cleaned \/ e.armed)
          /\ pollCalls' = e.started
          /\ pollInFlight' = pollInFlight + e.started
          /\ pollCallsAfterFailure' = 0
    /\ pollPeriods' = 0
    /\ pollFailures' = 0
    /\ UNCHANGED <<pollMounted, pollLateCalls>>
    /\ UNCHANGED notPoll

\* The component unmounts: the cleanup of the effect runs.
PollUnmount ==
    /\ pollMounted
    /\ pollMounted' = FALSE
    /\ pollArmed' = IF pollEnabled THEN PollCleanup(pollArmed) ELSE pollArmed
    /\ UNCHANGED <<pollEnabled, pollInFlight, pollCalls, pollPeriods,
                   pollFailures, pollToggles, pollCallsAfterFailure,
                   pollLateCalls>>
    /\ UNCHANGED notPoll

PollNext == PollPeriodElapses \/ PollSettle \/ PollSetEnabled \/ PollUnmount

(***************************************************************************)
(* Strings.  A string is a sequence of characters; Null is the value of    *)
(* an absent key (localStorage.getItem returns null).                      *)
(***************************************************************************)
Chars == {"a", " "}
Strings == UNION {[1..n -> Chars] : n \in 0..MaxLen}
Null == <<"null">>
Unknown == <<"unknown">>

IsSpace(c) == c = " "

RECURSIVE TrimStart(_)
TrimStart(str) ==
    IF str = <<>> THEN <<>>
    ELSE IF IsSpace(Head(str)) THEN TrimStart(Tail(str)) ELSE str

RECURSIVE TrimEnd(_)
TrimEnd(str) ==
    IF str = <<>> THEN <<>>
    ELSE IF IsSpace(str[Len(str)]) THEN TrimEnd(SubSeq(str, 1, Len(str) - 1))
    ELSE str

\* String.prototype.trim
Trim(str) == TrimEnd(TrimStart(str))

\* JavaScript truthiness of a string or null
Truthy(v) == v # Null /\ v # <<>>

(***************************************************************************)
(* Storage adapter                                                         *)
(***************************************************************************)
StorageKeys == {"nickname", "teamCode", "adminToken"}

\* Mutant of GetStorageValue: the value is returned trimmed.
GetStorageValueTrimmed(store, key, throws) ==
    IF throws
    THEN [result |-> Null, escaped |-> FALSE]
    ELSE LET value == store[key] IN
         [result |-> IF Truthy(value) /\ Trim(value) # <<>>
                     THEN Trim(value) ELSE Null,
          escaped |-> FALSE]

\* Mutant of GetStorageValue: no try/catch around localStorage.getItem.
GetStorageValueUnguarded(store, key, throws) ==
    IF throws
    THEN [result |-> Null, escaped |-> TRUE]
    ELSE LET value == store[key] IN
         [result |-> IF Truthy(value) /\ Trim(value) # <<>> THEN value ELSE Null,
          escaped |-> FALSE]

\* getStorageValue(key); throws: localStorage.getItem throws
GetStorageValue(store, key, throws) ==
    IF throws
    THEN [result |-> Null, escaped |-> FALSE]
    ELSE LET value == store[key] IN
         [result |-> IF Truthy(value) /\ Trim(value) # <<>> THEN value ELSE Null,
          escaped |-> FALSE]

\* setStorageValue(key, value); throws: localStorage.setItem throws
SetStorageValue(store, key, value, throws) ==
    IF throws
    THEN [store |-> store, attempts |-> 1, escaped |-> FALSE]
    ELSE [store |-> [store EXCEPT ![key] = value], attempts |-> 1,
          escaped |-> FALSE]

\* storage.clear(); failAt: which removeItem throws (0: none)
StorageClearResult(store, failAt) ==
    [store |-> IF failAt = 1 THEN store
               ELSE IF failAt = 2 THEN [store EXCEPT !["nickname"] = Null]
               ELSE [store EXCEPT !["nickname"] = Null, !["teamCode"] = Null],
     removed |-> IF failAt = 1 THEN {}
                 ELSE IF failAt = 2 THEN {"nickname"}
                 ELSE {"nickname", "teamCode"},
     escaped |-> FALSE]

\* No client operation has run yet
NoHeaders == [h \in {} |-> <<>>]
NoError == <<"none">>
NoResponse == [kind |-> "none", status |-> 0, statusText |-> "", json |-> FALSE]
NoOp == [caller |-> "none", via |-> "none", requests |-> 0,
         outcome |-> "none", error |-> NoError, response |-> NoResponse,
         headers |-> NoHeaders,
         storedNick |-> Null, storedTeam |-> Null,
         readOk |-> TRUE, hadToken |-> FALSE]

NoCall == [op |-> "none", key |-> "none", arg |-> Null, result |-> Null,
           threw |-> FALSE, escaped |-> FALSE, attempts |-> 0]

StorageInit ==
    /\ ls = [k \in StorageKeys |-> Null]
    /\ written = [k \in StorageKeys |-> Null]
    /\ lastCall = NoCall
    /\ storageDown = FALSE
    /\ lastOp = NoOp

\* storage.getNickname() / storage.getTeamCode()
StorageGet(key) ==
    \E throws \in BOOLEAN :
        LET r == GetStorageValue(ls, key, throws) IN
        /\ lastCall' = [op |-> "get", key |-> key, arg |-> Null,
                        result |-> r.result, threw |-> throws,
                        escaped |-> r.escaped, attempts |-> 1]
        /\ UNCHANGED <<ls, written>>
        /\ UNCHANGED notStorage

\* storage.setNickname(value) / storage.setTeamCode(value)
StorageSet(key) ==
    \E value \in Strings, throws \in BOOLEAN :
        LET r == SetStorageValue(ls, key, value, throws) IN
        /\ ls' = r.store
        /\ written' = [written EXCEPT ![key] = IF throws THEN Unknown ELSE value]
        /\ lastCall' = [op |-> "set", key |-> key, arg |-> value,
                        result |-> Null, threw |-> throws,
                        escaped |-> r.escaped, attempts |-> r.attempts]
        /\ UNCHANGED notStorage

StorageGetNickname == StorageGet("nickname")
StorageGetTeamCode == StorageGet("teamCode")
StorageSetNickname == StorageSet("nickname")
StorageSetTeamCode == StorageSet("teamCode")

\* storage.clear()
StorageClear ==
    \E failAt \in 0..2 :
        LET r == StorageClearResult(ls, failAt) IN
        /\ ls' = r.store
        /\ written' = [k \in StorageKeys |->
                          IF k \in r.removed THEN Null ELSE written[k]]
        /\ lastCall' = [op |-> "clear", key |-> "none", arg |-> Null,
                        result |-> Null, threw |-> failAt # 0,
                        escaped |-> r.escaped, attempts |-> 1]
        /\ UNCHANGED notStorage

StorageNext ==
    \/ StorageGetNickname
    \/ StorageGetTeamCode
    \/ StorageSetNickname
    \/ StorageSetTeamCode
    \/ StorageClear

(***************************************************************************)
(* API client                                                              *)
(***************************************************************************)
Anonymous == <<"Anonymous">>
DefaultTeam == <<"DEFAULT">>
AppJson == <<"application/json">>

\* { ...a, ...b }: the spread of b over a
Spread(a, b) == b @@ a

\* getEventHeaders(); throwsN, throwsT: the getItem of each key throws
GetEventHeaders(store, throwsN, throwsT) ==
    LET nickname == GetStorageValue(store, "nickname", throwsN).result
        teamCode == GetStorageValue(store, "teamCode", throwsT).result
    IN  ("Content-Type" :> AppJson)
        @@ ("X-Event-Mode" :> <<"true">>)
        @@ ("X-Nickname" :> IF Truthy(nickname) THEN nickname ELSE Anonymous)
        @@ ("X-Team-Code" :> IF Truthy(teamCode) THEN teamCode ELSE DefaultTeam)
        @@ ("X-Event-Session" :> <<"now">>)
        @@ ("Cache-Control" :> <<"no-cache">>)
        @@ ("Pragma" :> <<"no-cache">>)

\* Mutant of RequestHeaders: the caller's headers replace the event headers.
RequestHeadersReplaced(store, optHeaders, throwsN, throwsT) ==
    IF optHeaders # NoHeaders
    THEN Spread(("Content-Type" :> AppJson), optHeaders)
    ELSE Spread(GetEventHeaders(store, throwsN, throwsT),
                ("Content-Type" :> AppJson))

\* The headers object built by apiRequest
RequestHeaders(store, optHeaders, throwsN, throwsT) ==
    Spread(Spread(GetEventHeaders(store, throwsN, throwsT),
                  ("Content-Type" :> AppJson)),
           optHeaders)

\* What the server and the network can answer to one fetch: no response at
\* all (fetch rejects), or a status with its text and a body that parses as
\* JSON or does not
Responses ==
    {[kind |-> "network", status |-> 0, statusText |-> "", json |-> FALSE]}
    \cup {[kind |-> "http", status |-> st[1], statusText |-> st[2], json |-> j] :
            st \in {<<200, "OK">>, <<400, "Bad Request">>}, j \in BOOLEAN}

\* response.ok
ResponseOk(response) == response.status \in 200..299

\* Mutant of ApiRequestOutcome: a failed attempt is made once more.
ApiRequestOutcomeRetrying(response) ==
    IF response.kind = "network"
    THEN [requests |-> 2, outcome |-> "rejected", error |-> <<"TypeError">>]
    ELSE IF ~ResponseOk(response)
    THEN [requests |-> 2, outcome |-> "rejected",
          error |-> <<"HTTP", response.status, response.statusText>>]
    ELSE IF ~response.json
    THEN [requests |-> 2, outcome |-> "rejected", error |-> <<"SyntaxError">>]
    ELSE [requests |-> 1, outcome |-> "resolved", error |-> NoError]

\* The try block of apiRequest: one fetch; a throw of
\* Error(`HTTP ${status}: ${statusText}`) on a non-2xx status; the body
\* parsed as JSON; every failure is logged and rethrown.
ApiRequestOutcome(response) ==
    IF response.kind = "network"
    THEN [requests |-> 1, outcome |-> "rejected", error |-> <<"TypeError">>]
    ELSE IF ~ResponseOk(response)
    THEN [requests |-> 1, outcome |-> "rejected",
          error |-> <<"HTTP", response.status, response.statusText>>]
    ELSE IF ~response.json
    THEN [requests |-> 1, outcome |-> "rejected", error |-> <<"SyntaxError">>]
    ELSE [requests |-> 1, outcome |-> "resolved", error |-> NoError]

PublicMethods ==
    {"health", "sessions.join", "sessions.complete", "stories.list",
     "stories.create", "stories.getTurns", "stories.addSentence",
     "stories.addTwist", "stories.getStatus", "stories.getAnalysis",
     "leaderboard.getTeams", "getStory", "getTeams"}

\* The methods of apiClient.admin that read the admin token
TokenGatedMethods ==
    {"admin.getDashboard", "admin.getLiveView", "admin.getAnalysisList",
     "admin.getSessionAnalysis", "admin.createSession", "admin.deleteSession",
     "admin.startSession", "admin.getSnapshot", "admin.createRoom"}

\* deleteSession and startSession are async functions: a throw in their
\* body is a rejected promise
AsyncAdminMethods == {"admin.deleteSession", "admin.startSession"}

AdminMethods == TokenGatedMethods \cup {"admin.logout"}

\* The headers an admin method passes in options
AdminOptionHeaders(method, token) ==
    IF method \in {"admin.createSession", "admin.createRoom"}
    THEN ("X-Admin-Token" :> token) @@ ("Content-Type" :> AppJson)
    ELSE ("X-Admin-Token" :> token)

\* Mutant of AdminGate: the token check is missing.
AdminGateOpen(token, throws) == ~throws

\* const token = localStorage.getItem("adminToken");
\* if (!token) throw new Error("Admin token not found");
\* TRUE when the method goes on to apiRequest
AdminGate(token, throws) == ~throws /\ Truthy(token)

ApiInit ==
    /\ ls \in [StorageKeys -> Strings \cup {Null}]
    /\ ls["adminToken"] = Null
    /\ written = [k \in StorageKeys |-> Unknown]
    /\ lastCall = NoCall
    /\ storageDown = FALSE
    /\ lastOp = NoOp

\* One response for each way apiRequest can end (a body is not read after
\* a non-2xx status, so the two 400 responses end alike)
ApiResponses == {resp \in Responses : ResponseOk(resp) \/ ~resp.json}

\* The browser blocks or unblocks localStorage
StorageAvailability ==
    /\ storageDown' = ~storageDown
    /\ UNCHANGED <<ls, lastOp>>
    /\ UNCHANGED notApi

\* A call of a method of apiClient that is not an admin method
ApiCall ==
    \E m \in PublicMethods, resp \in ApiResponses :
        LET r == ApiRequestOutcome(resp) IN
        /\ lastOp' = [caller |-> m, via |-> "apiRequest",
                      requests |-> r.requests, outcome |-> r.outcome,
                      error |-> r.error, response |-> resp,
                      headers |-> RequestHeaders(ls, NoHeaders,
                                                 storageDown, storageDown),
                      storedNick |-> ls["nickname"],
                      storedTeam |-> ls["teamCode"],
                      readOk |-> ~storageDown,
                      hadToken |-> Truthy(ls["adminToken"])]
        /\ UNCHANGED <<ls, storageDown>>
        /\ UNCHANGED notApi

\* The legacy apiClient.addSentence / apiClient.addTwist: a resolved promise
\* and no request
ApiLegacyCall ==
    \E m \in {"addSentence", "addTwist"} :
        /\ lastOp' = [NoOp EXCEPT !.caller = m, !.outcome = "resolved",
                      !.storedNick = ls["nickname"],
                      !.storedTeam = ls["teamCode"],
                      !.readOk = ~storageDown,
                      !.hadToken = Truthy(ls["adminToken"])]
        /\ UNCHANGED <<ls, storageDown>>
        /\ UNCHANGED notApi

\* A call of a token-gated method of apiClient.admin
AdminCall ==
    \E m \in TokenGatedMethods, resp \in ApiResponses :
        LET token == ls["adminToken"]
            r == ApiRequestOutcome(resp)
        IN
        /\ lastOp' =
             IF AdminGate(token, storageDown)
             THEN [caller |-> m, via |-> "apiRequest",
                   requests |-> r.requests, outcome |-> r.outcome,
                   error |-> r.error, response |-> resp,
                   headers |-> RequestHeaders(ls, AdminOptionHeaders(m, token),
                                              storageDown, storageDown),
                   storedNick |-> ls["nickname"],
                   storedTeam |-> ls["teamCode"],
                   readOk |-> ~storageDown,
                   hadToken |-> Truthy(token)]
             ELSE [NoOp EXCEPT !.caller = m,
                   !.outcome = IF m \in AsyncAdminMethods
                               THEN "rejected" ELSE "threw",
                   !.storedNick = ls["nickname"],
                   !.storedTeam = ls["teamCode"],
                   !.readOk = ~storageDown,
                   !.hadToken = Truthy(token)]
        /\ UNCHANGED <<ls, storageDown>>
        /\ UNCHANGED notApi

\* apiClient.admin.logout()
AdminLogout ==
    /\ ls' = IF storageDown THEN ls ELSE [ls EXCEPT !["adminToken"] = Null]
    /\ lastOp' = [NoOp EXCEPT !.caller = "admin.logout",
                  !.outcome = IF storageDown THEN "threw" ELSE "resolved",
                  !.storedNick = ls["nickname"],
                  !.storedTeam = ls["teamCode"],
                  !.readOk = ~storageDown,
                  !.hadToken = Truthy(ls["adminToken"])]
    /\ UNCHANGED storageDown
    /\ UNCHANGED notApi

\* AdminLogin.handleTokenLogin with the token typed in the form; responseOk:
\* the validation request was answered with an ok status
HandleTokenLogin ==
    \E adminToken \in Strings, responseOk \in BOOLEAN :
        IF Trim(adminToken) = <<>>
        THEN /\ lastOp' = [NoOp EXCEPT !.caller = "handleTokenLogin",
                           !.outcome = "resolved",
                           !.storedNick = ls["nickname"],
                           !.storedTeam = ls["teamCode"],
                           !.readOk = ~storageDown,
                           !.hadToken = Truthy(ls["adminToken"])]
             /\ UNCHANGED <<ls, storageDown>>
             /\ UNCHANGED notApi
        ELSE /\ lastOp' = [caller |-> "handleTokenLogin", via |-> "fetch",
                           requests |-> 1, outcome |-> "resolved",
                           error |-> NoError, response |-> NoResponse,
                           headers |-> ("X-Admin-Token" :> Trim(adminToken)),
                           storedNick |-> ls["nickname"],
                           storedTeam |-> ls["teamCode"],
                           readOk |-> ~storageDown,
                           hadToken |-> Truthy(ls["adminToken"])]
             /\ ls' = IF responseOk /\ ~storageDown
                      THEN [ls EXCEPT !["adminToken"] = Trim(adminToken)]
                      ELSE ls
             /\ UNCHANGED storageDown
             /\ UNCHANGED notApi

\* AdminAuthWrapper.checkAuth, run when an admin page mounts
CheckAuth ==
    \E responseOk \in BOOLEAN :
        LET token == ls["adminToken"] IN
        IF storageDown \/ ~Truthy(token)
        THEN /\ lastOp' = [NoOp EXCEPT !.caller = "checkAuth",
                           !.outcome = IF storageDown THEN "rejected"
                                       ELSE "resolved",
                           !.storedNick = ls["nickname"],
                           !.storedTeam = ls["teamCode"],
                           !.readOk = ~storageDown,
                           !.hadToken = Truthy(token)]
             /\ UNCHANGED <<ls, storageDown>>
             /\ UNCHANGED notApi
        ELSE /\ lastOp' = [caller |-> "checkAuth", via |-> "fetch",
                           requests |-> 1, outcome |-> "resolved",
                           error |-> NoError, response |-> NoResponse,
                           headers |-> ("X-Admin-Token" :> token),
                           storedNick |-> ls["nickname"],
                           storedTeam |-> ls["teamCode"],
                           readOk |-> ~storageDown,
                           hadToken |-> Truthy(token)]
             /\ ls' = IF responseOk THEN ls
                      ELSE [ls EXCEPT !["adminToken"] = Null]
             /\ UNCHANGED storageDown
             /\ UNCHANGED notApi

ApiNext ==
    \/ StorageAvailability
    \/ ApiCall
    \/ ApiLegacyCall
    \/ AdminCall
    \/ AdminLogout
    \/ HandleTokenLogin
    \/ CheckAuth

(***************************************************************************)
(* StoryRoom and the server it talks to                                    *)
(***************************************************************************)
StoryTwister == <<"StoryTwister">>
UnknownAuthor == <<"Unknown">>
OtherUser == <<"bob">>
StoryId == <<"story", 1>>

\* A system pseudo-message, as built by addSystemMessage
SystemMessage(label) ==
    [id |-> <<"system", 0>>, text |-> <<label>>, author |-> Null,
     type |-> "system"]

\* addSystemMessage(text, type): setMessages(prev => [...prev, systemMessage])
AddSystemMessage(msgs, label) == Append(msgs, SystemMessage(label))

\* The optimistic message of handleSendSentence
OptimisticMessage(text, nickname) ==
    [id |-> <<"temp", 0>>, text |-> text, author |-> nickname, type |-> "user"]

IsOptimistic(m) == m.id[1] = "temp"
IsSystem(m) == m.type = "system"

\* turns.map(...) of loadStory: one display message per server turn, in the
\* order of the response
ConvertTurn(turn, i) ==
    LET isAITwist == turn.isTwist IN
    [id |-> <<"turn", turn.id>>,
     text |-> IF Truthy(turn.text) THEN turn.text ELSE <<>>,
     author |-> IF isAITwist THEN StoryTwister
                ELSE IF Truthy(turn.author) THEN turn.author
                ELSE UnknownAuthor,
     type |-> IF isAITwist THEN "twist" ELSE "user"]

\* Mutant of ConvertTurns: the messages come out newest first.
ConvertTurnsReversed(turns) ==
    [i \in 1..Len(turns) |-> ConvertTurn(turns[Len(turns) + 1 - i], i)]

ConvertTurns(turns) == [i \in 1..Len(turns) |-> ConvertTurn(turns[i], i)]

IsTurn(m) == m.id[1] = "turn"

\* The server turns a list shows
ShownTurns(msgs) == SelectSeq(msgs, IsTurn)

\* Mutant of SetLoadedMessages: a response with fewer turns than the list
\* shows is dropped.
SetLoadedMessagesIfNewer(prev, converted) ==
    IF Len(converted) < Len(ShownTurns(prev)) THEN prev ELSE converted

\* Mutant of SetLoadedMessages: the fetched turns are merged into the list
\* and the optimistic messages of the list are kept.
SetLoadedMessagesKeepingOptimistic(prev, converted) ==
    converted \o SelectSeq(prev, IsOptimistic)

\* setMessages(convertedMessages): the displayed list is replaced wholesale
SetLoadedMessages(prev, converted) == converted

\* The catch block of loadStory: addSystemMessage(...), setTeam(...),
\* setMessages([])
LoadStoryCatch(prev) == SetLoadedMessages(AddSystemMessage(prev, "loadfail"), <<>>)

\* messages.some(msg => msg.text === trimmedMessage && msg.author === nickname)
MessageWasAdded(msgs, text, nickname) ==
    \E i \in 1..Len(msgs) : msgs[i].text = text /\ msgs[i].author = nickname

\* The messages the 500 ms check of handleSendSentence reads: the messages
\* of the render in which the handler was created, as it was when the form
\* was submitted
CheckedMessages(closure, current) == closure

FreeLoad == [pc |-> "free", origin |-> "none", turns |-> <<>>]
StartedLoad(origin) == [pc |-> "lb", origin |-> origin, turns |-> <<>>]

IdleSend == [pc |-> "idle", text |-> <<>>, nickname |-> Null,
             closure |-> <<>>, ok |-> FALSE, refetchHad |-> FALSE]

FreeSlots == {i \in 1..MaxLoads : loads[i].pc = "free"}
FirstFree == CHOOSE i \in FreeSlots : \A j \in FreeSlots : i <= j

\* localStorage.getItem("nickname") || "Anonymous"
SenderNickname == IF Truthy(ls["nickname"]) THEN ls["nickname"] ELSE Anonymous

\* The author the server records for a turn: the X-Nickname header
HeaderNickname == GetEventHeaders(ls, FALSE, FALSE)["X-Nickname"]

\* StoryRoom mounts with a team id in the route: the mount effect calls
\* loadStory and the polling effect runs its immediate tick, which calls
\* loadStory as well.
RoomInit ==
    /\ ls \in {[k \in StorageKeys |-> IF k = "nickname" THEN n ELSE Null] :
                 n \in {<<"a">>}}
    /\ written = [k \in StorageKeys |-> Unknown]
    /\ lastCall = NoCall
    /\ storageDown = FALSE
    /\ lastOp = NoOp
    /\ srvStories \in 0..1
    /\ srvTurns = <<>>
    /\ srvStatus \in {"active", "completed"}
    /\ messages = <<>>
    /\ currentStory = Null
    /\ currentSentence = <<>>
    /\ isLoading = FALSE
    /\ sessionStatus = "active"
    /\ loads = [i \in 1..MaxLoads |->
                  IF i = 1 THEN StartedLoad("mount")
                  ELSE IF i = 2 THEN StartedLoad("poll")
                  ELSE FreeLoad]
    /\ send = IdleSend
    /\ welcomeTimers = 0
    /\ staleShown = FALSE
    /\ createRequests = 0

\* What the end of the loadStory invocation in slot i means for the send
\* that awaits it
SendAfterLoad(i, converted) ==
    IF send.pc = "refetch" /\ loads[i].origin = "send"
    THEN [send EXCEPT !.pc = "refetched",
                      !.refetchHad =
                          MessageWasAdded(converted, send.text, send.nickname)]
    ELSE send

\* The 5000 ms interval of usePoll fires: tick calls loadStory
RoomPollTick ==
    /\ FreeSlots # {}
    /\ loads' = [loads EXCEPT ![FirstFree] = StartedLoad("poll")]
    /\ UNCHANGED <<messages, currentStory, currentSentence, isLoading,
                   sessionStatus, send, createRequests>>
    /\ UNCHANGED serverVars
    /\ UNCHANGED welcomeTimers
    /\ UNCHANGED staleShown
    /\ UNCHANGED notRoom

\* loadStory: the leaderboard request settles; then the list request is sent
LoadLeaderboard(i) ==
    /\ loads[i].pc = "lb"
    /\ \E answer \in {"found", "missing or error"} :
          IF answer = "found"
          THEN /\ sessionStatus' = srvStatus
               /\ messages' = IF srvStatus = "completed"
                              THEN AddSystemMessage(messages, "ended")
                              ELSE messages
          ELSE UNCHANGED <<sessionStatus, messages>>
    /\ loads' = [loads EXCEPT ![i].pc = "list"]
    /\ UNCHANGED <<currentStory, currentSentence, isLoading, send,
                   createRequests>>
    /\ UNCHANGED serverVars
    /\ UNCHANGED welcomeTimers
    /\ UNCHANGED staleShown
    /\ UNCHANGED notRoom

\* loadStory: the list request fails, and the catch block and finally run
LoadListFails(i) ==
    /\ loads[i].pc = "list"
    /\ messages' = LoadStoryCatch(messages)
    /\ loads' = [loads EXCEPT ![i] = FreeLoad]
    /\ send' = SendAfterLoad(i, <<>>)
    /\ UNCHANGED <<currentStory, currentSentence, isLoading, sessionStatus,
                   createRequests>>
    /\ UNCHANGED serverVars
    /\ UNCHANGED welcomeTimers
    /\ staleShown' = FALSE
    /\ UNCHANGED notRoom

\* loadStory: the list request is answered; with a story the turns request
\* is sent, without one the create request
LoadList(i) ==
    /\ loads[i].pc = "list"
    /\ IF srvStories > 0
       THEN /\ currentStory' = StoryId
            /\ loads' = [loads EXCEPT ![i].pc = "turns"]
            /\ UNCHANGED createRequests
       ELSE /\ loads' = [loads EXCEPT ![i].pc = "create"]
            /\ createRequests' = IF createRequests < MaxCreates
                                 THEN createRequests + 1 ELSE createRequests
            /\ UNCHANGED currentStory
    /\ UNCHANGED <<messages, currentSentence, isLoading, sessionStatus, send>>
    /\ UNCHANGED serverVars
    /\ UNCHANGED welcomeTimers
    /\ UNCHANGED staleShown
    /\ UNCHANGED notRoom

\* loadStory: the create request is answered with the new story
LoadCreate(i) ==
    /\ loads[i].pc = "create"
    /\ srvStories' = IF srvStories = 0 THEN 1 ELSE srvStories
    /\ currentStory' = StoryId
    /\ messages' = SetLoadedMessages(messages, <<>>)
    /\ loads' = [loads EXCEPT ![i] = FreeLoad]
    /\ send' = SendAfterLoad(i, <<>>)
    /\ UNCHANGED <<currentSentence, isLoading, sessionStatus, createRequests>>
    /\ UNCHANGED <<srvTurns, srvStatus>>
    /\ UNCHANGED welcomeTimers
    /\ staleShown' = FALSE
    /\ UNCHANGED notRoom

\* loadStory: the create request fails (the server may have created the
\* story all the same), and the catch block and finally run
LoadCreateFails(i) ==
    /\ loads[i].pc = "create"
    /\ \E created \in BOOLEAN :
          srvStories' = IF created /\ srvStories = 0 THEN 1 ELSE srvStories
    /\ messages' = LoadStoryCatch(messages)
    /\ loads' = [loads EXCEPT ![i] = FreeLoad]
    /\ send' = SendAfterLoad(i, <<>>)
    /\ UNCHANGED <<currentStory, currentSentence, isLoading, sessionStatus,
                   createRequests>>
    /\ UNCHANGED <<srvTurns, srvStatus>>
    /\ UNCHANGED welcomeTimers
    /\ staleShown' = FALSE
    /\ UNCHANGED notRoom

\* The server answers the turns request with the turns it has now
LoadTurnsServed(i) ==
    /\ loads[i].pc = "turns"
    /\ loads' = [loads EXCEPT ![i].pc = "turnsResp", ![i].turns = srvTurns]
    /\ UNCHANGED <<messages, currentStory, currentSentence, isLoading,
                   sessionStatus, send, createRequests>>
    /\ UNCHANGED serverVars
    /\ UNCHANGED welcomeTimers
    /\ UNCHANGED staleShown
    /\ UNCHANGED notRoom

\* loadStory: the turns request fails, and the catch block and finally run
LoadTurnsFails(i) ==
    /\ loads[i].pc \in {"turns", "turnsResp"}
    /\ messages' = LoadStoryCatch(messages)
    /\ loads' = [loads EXCEPT ![i] = FreeLoad]
    /\ send' = SendAfterLoad(i, <<>>)
    /\ UNCHANGED <<currentStory, currentSentence, isLoading, sessionStatus,
                   createRequests>>
    /\ UNCHANGED serverVars
    /\ UNCHANGED welcomeTimers
    /\ staleShown' = FALSE
    /\ UNCHANGED notRoom

\* loadStory: the turns arrive, are converted and replace the list; with
\* exactly one turn the 1000 ms welcome timeout is set
LoadTurnsReceived(i) ==
    /\ loads[i].pc = "turnsResp"
    /\ LET converted == ConvertTurns(loads[i].turns) IN
        /\ messages' = SetLoadedMessages(messages, converted)
        /\ send' = SendAfterLoad(i, converted)
        /\ staleShown' = (Len(converted) < Len(ShownTurns(messages)))
        /\ IF Len(converted) = 1
           THEN /\ welcomeTimers < MaxWelcome
                /\ welcomeTimers' = welcomeTimers + 1
           ELSE UNCHANGED welcomeTimers
    /\ loads' = [loads EXCEPT ![i] = FreeLoad]
    /\ UNCHANGED <<currentStory, currentSentence, isLoading, sessionStatus,
                   createRequests>>
    /\ UNCHANGED serverVars
    /\ UNCHANGED notRoom

\* Some step of some loadStory invocation in flight
LoadStep ==
    \E i \in 1..MaxLoads :
        \/ LoadLeaderboard(i)
        \/ LoadList(i)
        \/ LoadListFails(i)
        \/ LoadCreate(i)
        \/ LoadCreateFails(i)
        \/ LoadTurnsServed(i)
        \/ LoadTurnsFails(i)
        \/ LoadTurnsReceived(i)

\* A loadStory invocation runs to its end: its last setMessages and finally
LoadCompletes ==
    \E i \in 1..MaxLoads :
        \/ LoadListFails(i)
        \/ LoadCreate(i)
        \/ LoadCreateFails(i)
        \/ LoadTurnsFails(i)
        \/ LoadTurnsReceived(i)

\* What the user types into the input field.  An input with blanks around
\* it is left out: the form treats it like its trimmed text.
Inputs == {text \in Strings : Len(text) <= MaxInput /\ Trim(text) = text}

\* onChange of the input field
UserTypes ==
    /\ currentStory # Null
    /\ ~isExpired
    /\ sessionStatus # "completed"
    /\ \E text \in Inputs :
          /\ text # currentSentence
          /\ currentSentence' = text
    /\ UNCHANGED <<messages, currentStory, isLoading, sessionStatus, loads,
                   send, createRequests>>
    /\ UNCHANGED serverVars
    /\ UNCHANGED welcomeTimers
    /\ UNCHANGED staleShown
    /\ UNCHANGED notRoom

\* The submit button of the form is enabled
CanSubmit ==
    /\ Trim(currentSentence) # <<>>
    /\ currentStory # Null
    /\ ~isLoading
    /\ ~isExpired
    /\ sessionStatus # "completed"

\* Mutant of SendGuard: only the input is tested, not the story.
SendGuardInputOnly(sentence, story) == Trim(sentence) # <<>>

\* The guard of handleSendSentence, TRUE when the send is accepted:
\* !(!currentSentence.trim() || !currentStory || !currentStory.id)
SendGuard(sentence, story) == Trim(sentence) # <<>> /\ story # Null

\* handleSendSentence up to its first await: with the guard failing, an
\* error system message and return; otherwise the optimistic message is
\* appended, the input is cleared and the add-sentence request is sent
HandleSendSentence ==
    /\ IF ~SendGuard(currentSentence, currentStory)
       THEN /\ messages' = AddSystemMessage(messages, "cannot")
            /\ UNCHANGED <<currentSentence, isLoading, send>>
       ELSE LET trimmedMessage == Trim(currentSentence)
                nickname == SenderNickname
            IN /\ isLoading' = TRUE
               /\ messages' = Append(messages,
                                     OptimisticMessage(trimmedMessage, nickname))
               /\ currentSentence' = <<>>
               /\ send' = [IdleSend EXCEPT !.pc = "adding",
                                           !.text = trimmedMessage,
                                           !.nickname = nickname,
                                           !.closure = messages]
    /\ UNCHANGED <<currentStory, sessionStatus, loads, createRequests>>
    /\ UNCHANGED serverVars
    /\ UNCHANGED welcomeTimers
    /\ UNCHANGED staleShown
    /\ UNCHANGED notRoom

\* The form is submitted with its button: handleSendSentence runs
SendSubmit ==
    /\ CanSubmit
    /\ send.pc = "idle"
    /\ HandleSendSentence

\* handleSendSentence runs whatever the form shows (a submit event that
\* does not come from the button)
SendHandlerRuns ==
    /\ send.pc = "idle"
    /\ ~SendGuard(currentSentence, currentStory) => Len(messages) < MaxMessages
    /\ HandleSendSentence

\* Mutant of RefetchAfterSend: no refetch after a failed add-sentence.
RefetchOnlyOnSuccess(ok) == ok

\* await loadStory() follows the add-sentence call in the try block and in
\* the catch block
RefetchAfterSend(ok) == TRUE

\* The add-sentence request settles (the server may have added the turn even
\* when it answers with an error), and handleSendSentence calls loadStory
SendAddSentenceSettles ==
    /\ send.pc = "adding"
    /\ FreeSlots # {}
    /\ \E applied, ok \in BOOLEAN :
          /\ ok => applied
          /\ applied => Len(srvTurns) < MaxTurns
          /\ srvTurns' = IF applied
                         THEN Append(srvTurns, [id |-> Len(srvTurns) + 1,
                                                text |-> send.text,
                                                author |-> HeaderNickname,
                                                isTwist |-> FALSE])
                         ELSE srvTurns
          /\ IF RefetchAfterSend(ok)
             THEN /\ send' = [send EXCEPT !.pc = "refetch", !.ok = ok]
                  /\ loads' = [loads EXCEPT ![FirstFree] = StartedLoad("send")]
             ELSE /\ send' = [send EXCEPT !.pc = "refetched", !.ok = ok]
                  /\ UNCHANGED loads
    /\ UNCHANGED <<messages, currentStory, currentSentence, isLoading,
                   sessionStatus, createRequests>>
    /\ UNCHANGED <<srvStories, srvStatus>>
    /\ UNCHANGED welcomeTimers
    /\ UNCHANGED staleShown
    /\ UNCHANGED notRoom

\* handleSendSentence after its await of loadStory: the success notice in
\* the try block, or the 500 ms timeout set in the catch block; then finally
SendAfterRefetch ==
    /\ send.pc = "refetched"
    /\ IF send.ok
       THEN /\ messages' = AddSystemMessage(messages, "sent")
            /\ send' = IdleSend
       ELSE /\ send' = [send EXCEPT !.pc = "timer"]
            /\ UNCHANGED messages
    /\ isLoading' = FALSE
    /\ UNCHANGED <<currentStory, currentSentence, sessionStatus, loads,
                   createRequests>>
    /\ UNCHANGED serverVars
    /\ UNCHANGED welcomeTimers
    /\ UNCHANGED staleShown
    /\ UNCHANGED notRoom

\* The 500 ms timeout of the catch block of handleSendSentence fires
SendTimeout ==
    /\ send.pc = "timer"
    /\ IF MessageWasAdded(CheckedMessages(send.closure, messages),
                          send.text, send.nickname)
       THEN /\ messages' = AddSystemMessage(messages, "sent")
            /\ send' = IdleSend
            /\ UNCHANGED currentSentence
       ELSE /\ messages' =
                 AddSystemMessage(
                     SelectSeq(messages, LAMBDA m : ~IsOptimistic(m)),
                     "sendfail")
            /\ currentSentence' = send.text
            /\ send' = IdleSend
    /\ UNCHANGED <<currentStory, isLoading, sessionStatus, loads,
                   createRequests>>
    /\ UNCHANGED serverVars
    /\ UNCHANGED welcomeTimers
    /\ UNCHANGED staleShown
    /\ UNCHANGED notRoom

\* A welcome timeout of loadStory fires: addSystemMessage(welcome)
WelcomeTimeout ==
    /\ welcomeTimers > 0
    /\ welcomeTimers' = welcomeTimers - 1
    /\ messages' = AddSystemMessage(messages, "welcome")
    /\ UNCHANGED <<currentStory, currentSentence, isLoading, sessionStatus,
                   loads, send, createRequests>>
    /\ UNCHANGED serverVars
    /\ UNCHANGED staleShown
    /\ UNCHANGED notRoom

\* Another member of the team adds a sentence
OtherUserAddsTurn ==
    /\ srvStories > 0
    /\ Len(srvTurns) < MaxTurns
    /\ srvTurns' = Append(srvTurns, [id |-> Len(srvTurns) + 1,
                                     text |-> <<"a">>, author |-> OtherUser,
                                     isTwist |-> FALSE])
    /\ UNCHANGED <<srvStories, srvStatus>>
    /\ UNCHANGED roomVars
    /\ UNCHANGED notRoom

RoomNext ==
    \/ RoomPollTick
    \/ LoadStep
    \/ UserTypes
    \/ SendSubmit
    \/ SendAddSentenceSettles
    \/ SendAfterRefetch
    \/ SendTimeout
    \/ WelcomeTimeout
    \/ OtherUserAddsTurn

(***************************************************************************)
(* Specifications                                                          *)
(***************************************************************************)
\* The story room is not open
RoomIdle ==
    /\ srvStories = 0
    /\ srvTurns = <<>>
    /\ srvStatus = "active"
    /\ messages = <<>>
    /\ currentStory = Null
    /\ currentSentence = <<>>
    /\ isLoading = FALSE
    /\ sessionStatus = "active"
    /\ loads = [i \in 1..MaxLoads |-> FreeLoad]
    /\ send = IdleSend
    /\ welcomeTimers = 0
    /\ staleShown = FALSE
    /\ createRequests = 0

\* The turns a turns response can hold: distinct server ids in any order
FetchedTurn ==
    [id : 1..MaxFetched, text : {<<"a">>, <<"a", "a">>},
     author : {<<"a">>, Null}, isTwist : BOOLEAN]
FetchedTurns ==
    {turns \in UNION {[1..n -> FetchedTurn] : n \in 0..MaxFetched} :
        \A j, k \in 1..Len(turns) : j # k => turns[j].id # turns[k].id}

\* What the list can show when a turns response arrives: nothing, an
\* optimistic message, or an older turn followed by a system message
DisplayedBefore ==
    {<<>>,
     <<OptimisticMessage(<<"a">>, <<"a">>)>>,
     <<ConvertTurn([id |-> 1, text |-> <<"a">>, author |-> OtherUser,
                    isTwist |-> FALSE], 1),
       SystemMessage("sent")>>}

\* loadStory at the point where its turns request has been answered
TurnsInit ==
    /\ srvStories = 1
    /\ srvTurns \in FetchedTurns
    /\ srvStatus = "active"
    /\ messages \in DisplayedBefore
    /\ currentStory = StoryId
    /\ currentSentence = <<>>
    /\ isLoading = FALSE
    /\ sessionStatus = "active"
    /\ loads = [i \in 1..MaxLoads |->
                  IF i = 1 THEN [pc |-> "turnsResp", origin |-> "poll",
                                 turns |-> srvTurns]
                  ELSE FreeLoad]
    /\ send = IdleSend
    /\ welcomeTimers = 0
    /\ staleShown = FALSE
    /\ createRequests = 0

TurnsNext == (\E i \in 1..MaxLoads : LoadTurnsReceived(i)) \/ WelcomeTimeout

InitTurns == TimerIdle /\ PollIdle /\ StorageInit /\ TurnsInit /\ PagesIdle
SpecTurns == InitTurns /\ [][TurnsNext]_vars

\* handleSendSentence run on any form state of an open story room
SendInit ==
    /\ srvStories \in 0..1
    /\ srvTurns = <<>>
    /\ srvStatus = "active"
    /\ messages \in DisplayedBefore
    /\ currentStory \in {Null, StoryId}
    /\ currentSentence \in Strings
    /\ isLoading \in BOOLEAN
    /\ sessionStatus = "active"
    /\ loads = [i \in 1..MaxLoads |-> FreeLoad]
    /\ send = IdleSend
    /\ welcomeTimers = 0
    /\ staleShown = FALSE
    /\ createRequests = 0

SendNext ==
    \/ SendHandlerRuns
    \/ SendAddSentenceSettles
    \/ LoadStep
    \/ SendAfterRefetch
    \/ SendTimeout
    \/ WelcomeTimeout

\* localStorage of a user who joined with a nickname, stored with or
\* without blanks around it, or has none stored
RoomStorage ==
    /\ ls \in {[k \in StorageKeys |-> IF k = "nickname" THEN n ELSE Null] :
                 n \in {<<"a">>, <<" ", "a">>, Null}}
    /\ written = [k \in StorageKeys |-> Unknown]
    /\ lastCall = NoCall
    /\ storageDown = FALSE
    /\ lastOp = NoOp

InitSend == TimerIdle /\ PollIdle /\ RoomStorage /\ SendInit /\ PagesIdle
SpecSend == InitSend /\ [][SendNext]_vars

(***************************************************************************)
(* The story service's add-sentence endpoint and the automatic twist.  The *)
(* service is not among the sources; it is modelled from the README and    *)
(* the specification.  The room under it is one without the moderator      *)
(* flag, which renders no Twist button, so handleInjectTwist cannot run.   *)
(***************************************************************************)
UserTurns(turns) == SelectSeq(turns, LAMBDA t : ~t.isTwist)
TwistTurns(turns) == SelectSeq(turns, LAMBDA t : t.isTwist)

\* Mutant of ServerAddSentence: the service appends the sentence only.
ServerAddSentenceOnly(turns, text, author) ==
    Append(turns, [id |-> Len(turns) + 1, text |-> text, author |-> author,
                   isTwist |-> FALSE])

\* The service appends the sentence as a user turn and, when the story
\* then holds a multiple of TwistEvery user turns, a generated twist turn
ServerAddSentence(turns, text, author) ==
    LET withTurn == Append(turns, [id |-> Len(turns) + 1, text |-> text,
                                   author |-> author, isTwist |-> FALSE])
    IN  IF Len(UserTurns(withTurn)) % TwistEvery = 0
        THEN Append(withTurn, [id |-> Len(withTurn) + 1, text |-> <<"a", "a">>,
                               author |-> Null, isTwist |-> TRUE])
        ELSE withTurn

\* A participant's add-sentence request is served
TwistContribution ==
    /\ srvStories > 0
    /\ Len(UserTurns(srvTurns)) < MaxContributions
    /\ \E author \in {<<"a">>, OtherUser} :
          srvTurns' = ServerAddSentence(srvTurns, <<"a">>, author)
    /\ UNCHANGED <<srvStories, srvStatus>>
    /\ UNCHANGED roomVars
    /\ UNCHANGED notRoom

TwistNext ==
    \/ TwistContribution
    \/ RoomPollTick
    \/ LoadStep
    \/ WelcomeTimeout

InitTwist == TimerIdle /\ PollIdle /\ StorageInit /\ RoomIdle /\ PagesIdle
SpecTwist == InitTwist /\ [][TwistNext]_vars

(***************************************************************************)
(* StoryRoom: the input bar in participant and in moderator mode           *)
(***************************************************************************)
\* The Twist button of the moderator controls is rendered and enabled:
\* isModerator ? <button onClick={handleInjectTwist} disabled={isLoading}>
TwistButtonEnabled == isModerator /\ ~isLoading

\* The guard of handleInjectTwist, TRUE when the twist is requested:
\* !(!teamId || isLoading || !currentStory)
TwistGuard(loading, story) == ~loading /\ story # Null

\* The moderator presses Twist: handleInjectTwist up to its await; it
\* returns at once when the guard fails, else sends the add-twist request
HandleInjectTwist ==
    /\ TwistButtonEnabled
    /\ twist.pc = "idle"
    /\ TwistGuard(isLoading, currentStory)
    /\ isLoading' = TRUE
    /\ twist' = [pc |-> "adding", slot |-> 0]
    /\ UNCHANGED <<messages, currentStory, currentSentence, sessionStatus,
                   loads, send, welcomeTimers, staleShown, createRequests>>
    /\ UNCHANGED <<timerVars, pollVars, storageVars, apiVars, serverVars>>
    /\ UNCHANGED <<isModerator, unusedByChat>>

\* The add-twist request settles: on success the notice is added and
\* loadStory is called and awaited; on failure the error notice is added
\* and finally runs
TwistSettles ==
    /\ twist.pc = "adding"
    /\ FreeSlots # {}
    /\ \E ok \in BOOLEAN :
          /\ ok => Len(srvTurns) < MaxTurns
          /\ IF ok
             THEN /\ srvTurns' = Append(srvTurns,
                                        [id |-> Len(srvTurns) + 1,
                                         text |-> <<"a", "a">>,
                                         author |-> Null, isTwist |-> TRUE])
                  /\ messages' = AddSystemMessage(messages, "twisted")
                  /\ loads' = [loads EXCEPT ![FirstFree] = StartedLoad("twist")]
                  /\ twist' = [pc |-> "refetch", slot |-> FirstFree]
                  /\ UNCHANGED isLoading
             ELSE /\ Len(messages) < MaxMessages
                  /\ messages' = AddSystemMessage(messages, "twistfail")
                  /\ isLoading' = FALSE
                  /\ twist' = IdleTwist
                  /\ UNCHANGED <<srvTurns, loads>>
    /\ UNCHANGED <<currentStory, currentSentence, sessionStatus, send,
                   welcomeTimers, staleShown, createRequests>>
    /\ UNCHANGED <<srvStories, srvStatus>>
    /\ UNCHANGED <<timerVars, pollVars, storageVars, apiVars>>
    /\ UNCHANGED <<isModerator, unusedByChat>>

\* The loadStory awaited by handleInjectTwist has ended: finally runs
TwistFinally ==
    /\ twist.pc = "refetch"
    /\ loads[twist.slot].origin # "twist"
    /\ isLoading' = FALSE
    /\ twist' = IdleTwist
    /\ UNCHANGED <<messages, currentStory, currentSentence, sessionStatus,
                   loads, send, welcomeTimers, staleShown, createRequests>>
    /\ UNCHANGED <<timerVars, pollVars, storageVars, apiVars, serverVars>>
    /\ UNCHANGED <<isModerator, unusedByChat>>

\* The form with the input and the Send button is rendered for
\* participants only
ParticipantTypes == ~isModerator /\ UserTypes
ParticipantSubmits == ~isModerator /\ SendSubmit

\* The story room as opened by a participant or by a moderator, with the
\* session timer about to expire; of the loadStory invocations the one of
\* the mount effect and those awaited by the handlers are followed
ChatInit ==
    /\ RoomStorage
    /\ ls["nickname"] = <<"a">>
    /\ srvStories \in 0..1
    /\ srvTurns = <<>>
    /\ srvStatus \in {"active", "completed"}
    /\ messages = <<>>
    /\ currentStory = Null
    /\ currentSentence = <<>>
    /\ isLoading = FALSE
    /\ sessionStatus = "active"
    /\ loads = [i \in 1..MaxLoads |->
                  IF i = 1 THEN StartedLoad("mount") ELSE FreeLoad]
    /\ send = IdleSend
    /\ welcomeTimers = 0
    /\ staleShown = FALSE
    /\ createRequests = 0
    /\ isModerator \in BOOLEAN
    /\ twist = IdleTwist

ChatNext ==
    \/ TimerTick
    \/ LoadStep
    \/ ParticipantTypes
    \/ ParticipantSubmits
    \/ SendAddSentenceSettles
    \/ SendAfterRefetch
    \/ SendTimeout
    \/ WelcomeTimeout
    \/ HandleInjectTwist
    \/ TwistSettles
    \/ TwistFinally

InitChat == TimerIdle /\ PollIdle /\ ChatInit /\ PagesIdleBut("chat")
SpecChat == InitChat /\ [][ChatNext]_vars

(***************************************************************************)
(* Twist classification of a server turn                                   *)
(***************************************************************************)
\* A turn as the turns endpoint may return it; "none": the field is absent
ServerTurns ==
    [is_twist : BOOLEAN,
     turn_type : {"twist", "user", "none"},
     type : {"twist", "user", "none"},
     author : {StoryTwister, <<"a">>, Null},
     nickname : {StoryTwister, <<"a">>, Null}]

\* StoryRoom.loadStory: turn.is_twist === true || turn.turn_type === "twist"
RoomIsAITwist(turn) == turn.is_twist \/ turn.turn_type = "twist"

\* StorySummary.loadSummary: the test of the map and of the filter
SummaryIsAITwist(turn) ==
    \/ turn.turn_type = "twist"
    \/ turn.type = "twist"
    \/ turn.is_twist
    \/ turn.author = StoryTwister
    \/ turn.nickname = StoryTwister

ClassifyInit ==
    /\ clsTurn \in ServerTurns
    /\ clsRoom = "none"
    /\ clsSummary = "none"

\* The story room loads the turn: type: isAITwist ? "twist" : "user"
ClassifyInRoom ==
    /\ clsRoom = "none"
    /\ clsRoom' = IF RoomIsAITwist(clsTurn) THEN "twist" ELSE "user"
    /\ UNCHANGED <<clsTurn, clsSummary>>
    /\ UNCHANGED unusedByClassify
    /\ UNCHANGED notPages

\* The summary page loads the turn
ClassifyInSummary ==
    /\ clsSummary = "none"
    /\ clsSummary' = IF SummaryIsAITwist(clsTurn) THEN "twist" ELSE "user"
    /\ UNCHANGED <<clsTurn, clsRoom>>
    /\ UNCHANGED unusedByClassify
    /\ UNCHANGED notPages

ClassifyNext == ClassifyInRoom \/ ClassifyInSummary

InitClassify ==
    /\ TimerIdle /\ PollIdle /\ StorageInit /\ RoomIdle
    /\ ClassifyInit /\ PagesIdleBut("classify")
SpecClassify == InitClassify /\ [][ClassifyNext]_vars

(***************************************************************************)
(* StorySummary                                                            *)
(***************************************************************************)
SummaryTeams == {<<"a">>, <<"a", "a">>}

\* The turns of the active story of a team: its content names the team,
\* and the second turn is a twist
TurnsOfTeam(team, count) ==
    [k \in 1..count |->
        [content |-> team,
         is_twist |-> (k = 2),
         turn_type |-> "none",
         type |-> "none",
         author |-> IF k = 2 THEN StoryTwister ELSE team,
         nickname |-> Null]]

\* storage.getTeamCode() || teamId
SummaryTeamCode(store, throws, routeTeam) ==
    LET stored == GetStorageValue(store, "teamCode", throws).result
    IN  IF Truthy(stored) THEN stored ELSE routeTeam

\* The parts of storyText, joined by blank lines: prefix and content
StoryText(turns) ==
    [k \in 1..Len(turns) |->
        [prefix |-> SummaryIsAITwist(turns[k]), content |-> turns[k].content]]

\* storyText.split(/\s+/).length, every content being one word
WordCount(text) ==
    IF text = <<>> THEN 1
    ELSE Len(text) + Len(SelectSeq(text, LAMBDA part : part.prefix))

\* turn.author || turn.nickname
Contributor(turn) ==
    IF Truthy(turn.author) THEN turn.author ELSE turn.nickname

SummaryStats(turns) ==
    [sentences |-> Len(turns),
     twists |-> Len(SelectSeq(turns, SummaryIsAITwist)),
     wordCount |-> WordCount(StoryText(turns)),
     contributors |-> Cardinality({Contributor(turns[k]) : k \in 1..Len(turns)})]

\* The page has mounted for the route /story-summary/<smRoute>
SummaryInit ==
    /\ ls \in {[k \in StorageKeys |-> IF k = "teamCode" THEN t ELSE Null] :
                 t \in SummaryTeams \cup {Null, <<" ">>}}
    /\ written = [k \in StorageKeys |-> Unknown]
    /\ lastCall = NoCall
    /\ storageDown \in BOOLEAN
    /\ lastOp = NoOp
    /\ smRoute \in SummaryTeams
    /\ smServer \in [SummaryTeams -> 0..2]
    /\ smPc = "mount"
    /\ smListTeam = <<>>
    /\ smStory = <<>>
    /\ summary = <<>>
    /\ stats = NoStats
    /\ smIsLoading = TRUE

\* loadSummary to its first await: the team code is chosen and the list
\* request is sent
LoadSummary ==
    /\ smPc = "mount"
    /\ smListTeam' = SummaryTeamCode(ls, storageDown, smRoute)
    /\ smPc' = "list"
    /\ smIsLoading' = TRUE
    /\ UNCHANGED <<smRoute, smServer, smStory, summary, stats>>
    /\ UNCHANGED unusedBySummary
    /\ UNCHANGED notPages

\* The list request is answered: without a story loadSummary throws, with
\* one it requests the turns of stories[0]
SummaryListAnswered ==
    /\ smPc = "list"
    /\ IF smServer[smListTeam] = 0
       THEN /\ smPc' = "failed"
            /\ smIsLoading' = FALSE
            /\ UNCHANGED smStory
       ELSE /\ smPc' = "turns"
            /\ smStory' = smListTeam
            /\ UNCHANGED smIsLoading
    /\ UNCHANGED <<smRoute, smServer, smListTeam, summary, stats>>
    /\ UNCHANGED unusedBySummary
    /\ UNCHANGED notPages

\* The list request or the turns request fails: catch and finally
SummaryRequestFails ==
    /\ smPc \in {"list", "turns"}
    /\ smPc' = "failed"
    /\ smIsLoading' = FALSE
    /\ UNCHANGED <<smRoute, smServer, smListTeam, smStory, summary, stats>>
    /\ UNCHANGED unusedBySummary
    /\ UNCHANGED notPages

\* The turns arrive: the summary and the statistics are set
SummaryTurnsAnswered ==
    /\ smPc = "turns"
    /\ LET turns == TurnsOfTeam(smStory, smServer[smStory]) IN
        /\ summary' = StoryText(turns)
        /\ stats' = SummaryStats(turns)
    /\ smPc' = "done"
    /\ smIsLoading' = FALSE
    /\ UNCHANGED <<smRoute, smServer, smListTeam, smStory>>
    /\ UNCHANGED unusedBySummary
    /\ UNCHANGED notPages

SummaryNext ==
    \/ LoadSummary
    \/ SummaryListAnswered
    \/ SummaryRequestFails
    \/ SummaryTurnsAnswered

InitSummary ==
    /\ TimerIdle /\ PollIdle /\ RoomIdle
    /\ SummaryInit /\ PagesIdleBut("summary")
SpecSummary == InitSummary /\ [][SummaryNext]_vars

(***************************************************************************)
(* TeamSelect: handleJoinTeam                                              *)
(***************************************************************************)
JoinChars == {"a", "A", " "}
JoinStrings == UNION {[1..n -> JoinChars] : n \in 0..MaxJoinLen}

\* String.prototype.toLowerCase
ToLowerCase(str) == [k \in 1..Len(str) |-> IF str[k] = "A" THEN "a" ELSE str[k]]

\* str.replace(/\s+/g, "_")
RECURSIVE ReplaceWhitespaceRuns(_)
ReplaceWhitespaceRuns(str) ==
    IF str = <<>> THEN <<>>
    ELSE IF IsSpace(Head(str))
         THEN <<"_">> \o ReplaceWhitespaceRuns(TrimStart(Tail(str)))
         ELSE <<Head(str)>> \o ReplaceWhitespaceRuns(Tail(str))

\* teamId.trim().toLowerCase().replace(/\s+/g, "_")
CleanTeamId(team) == ReplaceWhitespaceRuns(ToLowerCase(Trim(team)))

\* tempUsername.trim()
CleanUsername(name) == Trim(name)

\* The guard of handleJoinTeam, TRUE when the join goes on:
\* !(!teamId.trim() || !tempUsername.trim())
JoinGuard(team, name) == Trim(team) # <<>> /\ Trim(name) # <<>>

\* Mutant of JoinRequestHeaders: the request is built before the writes.
JoinRequestHeadersEarly(before, after) ==
    RequestHeaders(before, NoHeaders, FALSE, FALSE)

\* The headers of apiClient.sessions.join(), called after the writes:
\* before and after are localStorage before and after them
JoinRequestHeaders(before, after) ==
    RequestHeaders(after, NoHeaders, FALSE, FALSE)

\* Mutant of JoinNavigates: navigate runs whatever the request gave.
JoinNavigatesAlways(ok, legacyThrows) == TRUE

\* navigate is reached when the awaited join resolved and the two legacy
\* setters before it returned
JoinNavigates(ok, legacyThrows) == ok /\ ~legacyThrows

\* The join form is shown; storage may hold an earlier identity
TeamSelectInit ==
    /\ ls \in {[k \in StorageKeys |-> IF k = "adminToken" THEN Null ELSE v] :
                 v \in {Null, <<"b">>}}
    /\ written = [k \in StorageKeys |-> Unknown]
    /\ lastCall = NoCall
    /\ storageDown = FALSE
    /\ lastOp = NoOp
    /\ teamId \in JoinStrings
    /\ tempUsername \in Strings
    /\ isJoining = FALSE
    /\ tsPc = "form"
    /\ joinRequest = NoHeaders
    /\ joinOutcome = "none"
    /\ navigatedTo = Null
    /\ legacy = NoLegacy

\* handleJoinTeam to its await.  With a blank field: a toast and return.
\* Otherwise the nickname and the team code are written through the
\* storage adapter, which swallows a failed write, and authMode is written
\* directly: when that write throws, catch and finally run and no request
\* is sent; else the join request is sent.
HandleJoinTeam ==
    /\ tsPc = "form"
    /\ IF ~JoinGuard(teamId, tempUsername)
       THEN /\ tsPc' = "rejected"
            /\ UNCHANGED <<isJoining, joinRequest, ls>>
       ELSE \E throwsN, throwsT, throwsA \in BOOLEAN :
              LET afterN == SetStorageValue(ls, "nickname",
                                            CleanUsername(tempUsername),
                                            throwsN).store
                  afterT == SetStorageValue(afterN, "teamCode",
                                            CleanTeamId(teamId),
                                            throwsT).store
              IN  /\ ls' = afterT
                  /\ IF throwsA
                     THEN /\ tsPc' = "failed"
                          /\ isJoining' = FALSE
                          /\ UNCHANGED joinRequest
                     ELSE /\ tsPc' = "joining"
                          /\ isJoining' = TRUE
                          /\ joinRequest' = JoinRequestHeaders(ls, afterT)
    /\ UNCHANGED <<teamId, tempUsername, joinOutcome, navigatedTo, legacy>>
    /\ UNCHANGED <<written, lastCall, storageDown, lastOp>>
    /\ UNCHANGED <<timerVars, pollVars, serverVars, roomVars>>
    /\ UNCHANGED unusedByTeamSelect

\* The join request settles.  Resolved: the legacy values are set, then
\* navigate and the success toast; rejected, or a legacy setter throwing:
\* the error toast.  Then finally.
JoinSettles ==
    /\ tsPc = "joining"
    /\ \E ok, legacyThrows \in BOOLEAN :
          /\ joinOutcome' = IF ok THEN "ok" ELSE "error"
          /\ legacyThrows => ok
          /\ IF JoinNavigates(ok, legacyThrows)
             THEN /\ legacy' = [teamId |-> CleanTeamId(teamId),
                                username |-> CleanUsername(tempUsername)]
                  /\ navigatedTo' = CleanTeamId(teamId)
                  /\ tsPc' = "room"
             ELSE /\ tsPc' = "failed"
                  /\ UNCHANGED <<legacy, navigatedTo>>
    /\ isJoining' = FALSE
    /\ UNCHANGED <<teamId, tempUsername, joinRequest>>
    /\ UNCHANGED unusedByTeamSelect
    /\ UNCHANGED notPages

TeamSelectNext == HandleJoinTeam \/ JoinSettles

InitTeamSelect ==
    /\ TimerIdle /\ PollIdle /\ RoomIdle
    /\ TeamSelectInit /\ PagesIdleBut("teamSelect")
SpecTeamSelect == InitTeamSelect /\ [][TeamSelectNext]_vars

(***************************************************************************)
(* AdminLogin (handleTokenLogin) and AdminAuthWrapper (checkAuth), step by *)
(* step, in one browser tab.                                               *)
(***************************************************************************)
\* How the validation request GET /api/v1/admin/dashboard can end: an ok
\* status, another status, or a rejected fetch
ValidationAnswers == {"ok", "notOk", "network"}

\* A call that read the stored values and sent nothing
LocalCall(caller, outcome) ==
    [NoOp EXCEPT !.caller = caller, !.outcome = outcome,
                 !.storedNick = ls["nickname"],
                 !.storedTeam = ls["teamCode"],
                 !.readOk = ~storageDown,
                 !.hadToken = Truthy(ls["adminToken"])]

\* The raw fetch of the validation request with the given token
ValidationFetch(caller, token) ==
    [caller |-> caller, via |-> "fetch",
     requests |-> 1, outcome |-> "resolved",
     error |-> NoError, response |-> NoResponse,
     headers |-> ("X-Admin-Token" :> token),
     storedNick |-> ls["nickname"],
     storedTeam |-> ls["teamCode"],
     readOk |-> ~storageDown,
     hadToken |-> Truthy(ls["adminToken"])]

\* The wrapper as it mounts: useState(false), useState(true), the effect
\* not yet run
WrapperMounted ==
    /\ isAuthenticated' = FALSE
    /\ isChecking' = TRUE
    /\ checkAuth' = [NoCheckAuth EXCEPT !.pc = "mounted"]

\* The children of the wrapper are rendered
ProtectedPageRendered ==
    adminRoute = "protected" /\ ~isChecking /\ isAuthenticated

\* if (response.ok) localStorage.setItem("adminToken", adminToken.trim());
\* throws: setItem throws
LoginStores(answer, throws) == answer = "ok" /\ ~throws

\* if (response.ok) setIsAuthenticated(true)
AuthPasses(answer) == answer = "ok"

\* A tab opened on the login page or on a protected admin page, with what
\* an earlier visit left in storage
AdminAuthInit ==
    /\ \E token \in {Null, <<"a">>, <<"a", "a">>} :
           ls = [k \in StorageKeys |->
                    IF k = "adminToken" THEN token ELSE Null]
    /\ written = [k \in StorageKeys |-> Unknown]
    /\ lastCall = NoCall
    /\ storageDown \in BOOLEAN
    /\ lastOp = NoOp
    /\ adminRoute \in {"login", "protected"}
    /\ isAuthenticated = FALSE
    /\ isChecking = TRUE
    /\ checkAuth = IF adminRoute = "protected"
                   THEN [NoCheckAuth EXCEPT !.pc = "mounted"]
                   ELSE NoCheckAuth
    /\ adminLogin = NoAdminLogin

\* The user loads /admin/login or a protected admin page by its URL; the
\* page load drops the component state and the requests in flight
OpenAdminRoute ==
    \E route \in {"login", "protected"} :
        /\ adminRoute' = route
        /\ isAuthenticated' = FALSE
        /\ isChecking' = TRUE
        /\ checkAuth' = IF route = "protected"
                        THEN [NoCheckAuth EXCEPT !.pc = "mounted"]
                        ELSE NoCheckAuth
        /\ adminLogin' = NoAdminLogin
        /\ UNCHANGED <<storageVars, apiVars>>
        /\ UNCHANGED <<timerVars, pollVars, serverVars, roomVars>>
        /\ UNCHANGED unusedByAdminAuth

\* handleTokenLogin up to its await: the guard on the typed token, then the
\* validation request
LoginSubmit ==
    /\ adminRoute = "login"
    /\ adminLogin.pc = "form"
    /\ \E adminToken \in Strings :
        IF Trim(adminToken) = <<>>
        THEN /\ lastOp' = LocalCall("handleTokenLogin", "resolved")
             /\ UNCHANGED adminLogin
        ELSE /\ lastOp' = ValidationFetch("handleTokenLogin", Trim(adminToken))
             /\ adminLogin' = [pc |-> "fetching", token |-> Trim(adminToken),
                               answer |-> "none"]
    /\ UNCHANGED <<adminRoute, isAuthenticated, isChecking, checkAuth>>
    /\ UNCHANGED <<storageVars, storageDown>>
    /\ UNCHANGED <<timerVars, pollVars, serverVars, roomVars>>
    /\ UNCHANGED unusedByAdminAuth

\* handleTokenLogin after its await: on an ok status the token is stored
\* and the dashboard route, inside the wrapper, is navigated to; a throwing
\* setItem, like a rejected fetch, ends in the catch block
LoginSettles ==
    /\ adminLogin.pc = "fetching"
    /\ \E answer \in ValidationAnswers, throws \in BOOLEAN :
        /\ storageDown => throws
        /\ IF LoginStores(answer, throws)
           THEN /\ ls' = [ls EXCEPT !["adminToken"] = adminLogin.token]
                /\ adminRoute' = "protected"
                /\ WrapperMounted
                /\ adminLogin' = [adminLogin EXCEPT !.pc = "done",
                                                    !.answer = answer]
           ELSE /\ adminLogin' = [adminLogin EXCEPT !.pc = "form",
                                                    !.answer = answer]
                /\ UNCHANGED <<ls, adminRoute, isAuthenticated, isChecking,
                               checkAuth>>
    /\ UNCHANGED <<written, lastCall, apiVars>>
    /\ UNCHANGED <<timerVars, pollVars, serverVars, roomVars>>
    /\ UNCHANGED unusedByAdminAuth

\* checkAuth up to its await: the token is read outside the try block, so
\* a throwing getItem rejects the promise of checkAuth and nothing after
\* runs; without a token the login page is navigated to
CheckAuthStart ==
    /\ adminRoute = "protected"
    /\ checkAuth.pc = "mounted"
    /\ LET token == ls["adminToken"] IN
       IF storageDown
       THEN /\ lastOp' = LocalCall("checkAuth", "rejected")
            /\ checkAuth' = [checkAuth EXCEPT !.pc = "threw"]
            /\ UNCHANGED <<adminRoute, isAuthenticated, isChecking,
                           adminLogin>>
       ELSE IF ~Truthy(token)
       THEN /\ lastOp' = LocalCall("checkAuth", "resolved")
            /\ adminRoute' = "login"
            /\ checkAuth' = [checkAuth EXCEPT !.pc = "redirected"]
            /\ adminLogin' = NoAdminLogin
            /\ UNCHANGED <<isAuthenticated, isChecking>>
       ELSE /\ lastOp' = ValidationFetch("checkAuth", token)
            /\ checkAuth' = [pc |-> "fetching", token |-> token,
                             answer |-> "none"]
            /\ UNCHANGED <<adminRoute, isAuthenticated, isChecking,
                           adminLogin>>
    /\ UNCHANGED <<storageVars, storageDown>>
    /\ UNCHANGED <<timerVars, pollVars, serverVars, roomVars>>
    /\ UNCHANGED unusedByAdminAuth

\* checkAuth after its await: an ok status authenticates; any other answer
\* removes the token and navigates to the login page.  A throwing
\* removeItem throws again in the catch block, before navigate.  The
\* finally block ends the checking in every case.
CheckAuthSettles ==
    /\ checkAuth.pc = "fetching"
    /\ \E answer \in ValidationAnswers :
        IF AuthPasses(answer)
        THEN /\ isAuthenticated' = TRUE
             /\ checkAuth' = [checkAuth EXCEPT !.pc = "done",
                                               !.answer = answer]
             /\ UNCHANGED <<ls, adminRoute, adminLogin>>
        ELSE IF storageDown
        THEN /\ checkAuth' = [checkAuth EXCEPT !.pc = "threw",
                                               !.answer = answer]
             /\ UNCHANGED <<ls, adminRoute, isAuthenticated, adminLogin>>
        ELSE /\ ls' = [ls EXCEPT !["adminToken"] = Null]
             /\ adminRoute' = "login"
             /\ checkAuth' = [checkAuth EXCEPT !.pc = "redirected",
                                               !.answer = answer]
             /\ adminLogin' = NoAdminLogin
             /\ UNCHANGED isAuthenticated
    /\ isChecking' = FALSE
    /\ UNCHANGED <<written, lastCall, apiVars>>
    /\ UNCHANGED <<timerVars, pollVars, serverVars, roomVars>>
    /\ UNCHANGED unusedByAdminAuth

AdminAuthNext ==
    \/ OpenAdminRoute
    \/ LoginSubmit
    \/ LoginSettles
    \/ CheckAuthStart
    \/ CheckAuthSettles
    \/ AdminCall
    \/ AdminLogout
    \/ StorageAvailability

InitAdminAuth ==
    TimerIdle /\ PollIdle /\ AdminAuthInit /\ RoomIdle
    /\ PagesIdleBut("adminAuth")
SpecAdminAuth == InitAdminAuth /\ [][AdminAuthNext]_vars

(***************************************************************************)
(* AdminDashboard: loadDashboardData and the delete flow                   *)
(***************************************************************************)
\* session.id
SessionIds == {<<"session", n>> : n \in 1..MaxSessions}

\* The session lists the server can hold: distinct ids in increasing order
SessionLists ==
    {list \in UNION {[1..n -> SessionIds] : n \in 0..MaxSessions} :
        \A i, j \in 1..Len(list) : i < j => list[i][2] < list[j][2]}

\* prev.filter((s) => s.id !== sessionToDelete)
RECURSIVE FilterOut(_, _)
FilterOut(list, id) ==
    IF list = <<>> THEN <<>>
    ELSE IF Head(list) = id THEN FilterOut(Tail(list), id)
    ELSE <<Head(list)>> \o FilterOut(Tail(list), id)

\* The ids in a list
IdsOf(list) == {list[i] : i \in 1..Len(list)}

\* A sequence without its i-th element
DropAt(seq, i) == SubSeq(seq, 1, i - 1) \o SubSeq(seq, i + 1, Len(seq))

\* A getDashboard request that has left the browser
SentLoad == [pc |-> "sent", ok |-> FALSE, body |-> <<>>]

\* The dashboard right after it mounted: the effect has called
\* loadDashboardData once; the admin token is in storage
DashboardInit ==
    /\ ls = [k \in StorageKeys |->
                IF k = "adminToken" THEN <<"a">> ELSE Null]
    /\ written = [k \in StorageKeys |-> Unknown]
    /\ lastCall = NoCall
    /\ storageDown = FALSE
    /\ lastOp = NoOp
    /\ srvSessions \in SessionLists
    /\ sessions = <<>>
    /\ dashIsLoading = TRUE
    /\ showDeleteModal = FALSE
    /\ sessionToDelete = Null
    /\ deletingSessionId = Null
    /\ dashLoads = <<SentLoad>>
    /\ refreshTimer = 0
    /\ deleteRequest = "none"
    /\ deleted = {}
    /\ deleteOutcome = "none"

\* loadDashboardData up to its await, called by the 30 s interval or the
\* Refresh button
LoadDashboardData ==
    /\ Len(dashLoads) < MaxDashLoads
    /\ dashIsLoading' = TRUE
    /\ dashLoads' = Append(dashLoads, SentLoad)
    /\ UNCHANGED <<srvSessions, sessions, showDeleteModal, sessionToDelete,
                   deletingSessionId, refreshTimer, deleteRequest, deleted,
                   deleteOutcome>>
    /\ UNCHANGED notPages
    /\ UNCHANGED unusedByDashboard

\* The setTimeout(() => loadDashboardData(), 1000) of a successful delete
\* fires
RefreshTimerFires ==
    /\ refreshTimer > 0
    /\ Len(dashLoads) < MaxDashLoads
    /\ refreshTimer' = refreshTimer - 1
    /\ dashIsLoading' = TRUE
    /\ dashLoads' = Append(dashLoads, SentLoad)
    /\ UNCHANGED <<srvSessions, sessions, showDeleteModal, sessionToDelete,
                   deletingSessionId, deleteRequest, deleted, deleteOutcome>>
    /\ UNCHANGED notPages
    /\ UNCHANGED unusedByDashboard

\* The server answers a getDashboard request with the sessions it has at
\* that moment, or the request fails
ServerAnswersDashboard ==
    \E i \in 1..Len(dashLoads), ok \in BOOLEAN :
        /\ dashLoads[i].pc = "sent"
        /\ dashLoads' = [dashLoads EXCEPT
                           ![i] = [pc |-> "answered", ok |-> ok,
                                   body |-> IF ok THEN srvSessions ELSE <<>>]]
        /\ UNCHANGED <<srvSessions, sessions, dashIsLoading, showDeleteModal,
                       sessionToDelete, deletingSessionId, refreshTimer,
                       deleteRequest, deleted, deleteOutcome>>
        /\ UNCHANGED notPages
        /\ UNCHANGED unusedByDashboard

\* setSessions(response.active_sessions || []) or, in the catch block,
\* setSessions([])
LoadedSessions(shown, load) ==
    IF load.ok THEN load.body ELSE <<>>

\* loadDashboardData after its await; the answers arrive in any order
DashboardLoadSettles ==
    \E i \in 1..Len(dashLoads) :
        /\ dashLoads[i].pc = "answered"
        /\ sessions' = LoadedSessions(sessions, dashLoads[i])
        /\ dashIsLoading' = FALSE
        /\ dashLoads' = DropAt(dashLoads, i)
        /\ UNCHANGED <<srvSessions, showDeleteModal, sessionToDelete,
                       deletingSessionId, refreshTimer, deleteRequest,
                       deleted, deleteOutcome>>
        /\ UNCHANGED notPages
        /\ UNCHANGED unusedByDashboard

\* handleDeleteSession(session.id): the Delete button of a displayed
\* session, disabled while that session is being deleted
HandleDeleteSession ==
    \E id \in IdsOf(sessions) :
        /\ ~showDeleteModal
        /\ deletingSessionId # id
        /\ sessionToDelete' = id
        /\ showDeleteModal' = TRUE
        /\ UNCHANGED <<srvSessions, sessions, dashIsLoading,
                       deletingSessionId, dashLoads, refreshTimer,
                       deleteRequest, deleted, deleteOutcome>>
        /\ UNCHANGED notPages
        /\ UNCHANGED unusedByDashboard

\* cancelDeleteSession: the Cancel button of the modal, disabled while the
\* delete is in progress
CancelDeleteSession ==
    /\ showDeleteModal
    /\ deletingSessionId # sessionToDelete
    /\ sessionToDelete' = Null
    /\ showDeleteModal' = FALSE
    /\ UNCHANGED <<srvSessions, sessions, dashIsLoading, deletingSessionId,
                   dashLoads, refreshTimer, deleteRequest, deleted,
                   deleteOutcome>>
    /\ UNCHANGED notPages
    /\ UNCHANGED unusedByDashboard

\* confirmDeleteSession up to its await
ConfirmDeleteSession ==
    /\ showDeleteModal
    /\ sessionToDelete # Null
    /\ deletingSessionId # sessionToDelete
    /\ deletingSessionId' = sessionToDelete
    /\ deleteRequest' = "sent"
    /\ deleteOutcome' = "none"
    /\ UNCHANGED <<srvSessions, sessions, dashIsLoading, showDeleteModal,
                   sessionToDelete, dashLoads, refreshTimer, deleted>>
    /\ UNCHANGED notPages
    /\ UNCHANGED unusedByDashboard

\* The server handles the delete request: the session is removed, or the
\* request fails and the session stays
ServerHandlesDelete ==
    /\ deleteRequest = "sent"
    /\ \E ok \in BOOLEAN :
        /\ ok => deletingSessionId \in IdsOf(srvSessions)
        /\ deleteRequest' = IF ok THEN "ok" ELSE "failed"
        /\ srvSessions' = IF ok THEN FilterOut(srvSessions, deletingSessionId)
                          ELSE srvSessions
    /\ UNCHANGED <<sessions, dashIsLoading, showDeleteModal, sessionToDelete,
                   deletingSessionId, dashLoads, refreshTimer, deleted,
                   deleteOutcome>>
    /\ UNCHANGED notPages
    /\ UNCHANGED unusedByDashboard

\* confirmDeleteSession after its await: on success the session is
\* filtered out of the displayed list and a refresh is scheduled; the
\* finally block resets the delete state and closes the modal
DeleteSettles ==
    /\ deleteRequest \in {"ok", "failed"}
    /\ IF deleteRequest = "ok"
       THEN /\ sessions' = FilterOut(sessions, deletingSessionId)
            /\ refreshTimer' = refreshTimer + 1
            /\ deleted' = deleted \cup {deletingSessionId}
       ELSE UNCHANGED <<sessions, refreshTimer, deleted>>
    /\ deleteOutcome' = deleteRequest
    /\ deleteRequest' = "none"
    /\ deletingSessionId' = Null
    /\ sessionToDelete' = Null
    /\ showDeleteModal' = FALSE
    /\ UNCHANGED <<srvSessions, dashIsLoading, dashLoads>>
    /\ UNCHANGED notPages
    /\ UNCHANGED unusedByDashboard

DashboardNext ==
    \/ LoadDashboardData
    \/ RefreshTimerFires
    \/ ServerAnswersDashboard
    \/ DashboardLoadSettles
    \/ HandleDeleteSession
    \/ CancelDeleteSession
    \/ ConfirmDeleteSession
    \/ ServerHandlesDelete
    \/ DeleteSettles

InitDashboard ==
    TimerIdle /\ PollIdle /\ DashboardInit /\ RoomIdle
    /\ PagesIdleBut("dashboard")
SpecDashboard == InitDashboard /\ [][DashboardNext]_vars

(***************************************************************************)
(* Leaderboard                                                             *)
(***************************************************************************)
\* An optional number of a response: <<>> when the field is absent
OptionalScores == {<<>>, <<5>>}

\* value || 0
OrZero(value) == IF value = <<>> THEN 0 ELSE value[1]

\* A team of the leaderboard response, by its place in the response
TeamRows(code) ==
    [team_code : {code},
     session_status : {"completed", "active"},
     stories_completed : 0..1,
     total_turns : 0..1,
     avg_creativity_score : OptionalScores,
     avg_engagement_score : {<<>>},
     avg_collaboration_score : {<<>>}]

LeaderboardResponses ==
    UNION {{r \in [1..n -> UNION {TeamRows(c) : c \in 1..n}] :
               \A k \in 1..n : r[k].team_code = k} : n \in 0..MaxTeams}

\* The object the map callback returns for a team: the score computed
\* for convertedTeam is handed on as finalScore
ConvertTeam(team) ==
    [id |-> team.team_code,
     userTurns |-> team.total_turns,
     creativityScore |-> OrZero(team.avg_creativity_score),
     finalScore |-> team.stories_completed * 100
                    + team.total_turns * 10
                    + OrZero(team.avg_creativity_score)
                    + OrZero(team.avg_engagement_score)
                    + OrZero(team.avg_collaboration_score)]

ConvertTeams(rows) ==
    LET completed == SelectSeq(rows, LAMBDA team :
                                   team.session_status = "completed")
    IN  [k \in 1..Len(completed) |-> ConvertTeam(completed[k])]

\* typeof a.score === "number" ? a.score : 0
SortScore(team) == IF "score" \in DOMAIN team THEN team.score ELSE 0

\* The comparator of the sort: scoreB - scoreA
CompareTeams(a, b) == SortScore(b) - SortScore(a)

\* Array.prototype.sort, which is stable: team goes behind every element
\* the comparator does not put after it
InsertTeam(sorted, team) ==
    LET before == {k \in 1..Len(sorted) : CompareTeams(sorted[k], team) <= 0}
        at == IF before = {} THEN 0
              ELSE CHOOSE k \in before : \A j \in before : j <= k
    IN  SubSeq(sorted, 1, at) \o <<team>> \o SubSeq(sorted, at + 1, Len(sorted))

RECURSIVE SortTeams(_)
SortTeams(list) ==
    IF list = <<>> THEN <<>>
    ELSE InsertTeam(SortTeams(SubSeq(list, 1, Len(list) - 1)), list[Len(list)])

\* The Leaderboard page has mounted and loadTeams has sent its request
LeaderboardInit ==
    /\ lbResponse \in LeaderboardResponses
    /\ teams = <<>>
    /\ lbIsLoading = TRUE
    /\ lbPc = "request"

\* loadTeams: the response arrives, is filtered, converted, sorted and set
LoadTeams ==
    /\ lbPc = "request"
    /\ teams' = SortTeams(ConvertTeams(lbResponse))
    /\ lbIsLoading' = FALSE
    /\ lbPc' = "done"
    /\ UNCHANGED lbResponse
    /\ UNCHANGED unusedByLeaderboard
    /\ UNCHANGED notPages

\* loadTeams: the request fails, and the catch block and finally run
LoadTeamsFails ==
    /\ lbPc = "request"
    /\ teams' = <<>>
    /\ lbIsLoading' = FALSE
    /\ lbPc' = "failed"
    /\ UNCHANGED lbResponse
    /\ UNCHANGED unusedByLeaderboard
    /\ UNCHANGED notPages

LeaderboardNext == LoadTeams \/ LoadTeamsFails

InitLeaderboard ==
    /\ TimerIdle /\ PollIdle /\ StorageInit /\ RoomIdle
    /\ LeaderboardInit /\ PagesIdleBut("leaderboard")
SpecLeaderboard == InitLeaderboard /\ [][LeaderboardNext]_vars

InitTimer == TimerInit /\ PollIdle /\ StorageInit /\ RoomIdle /\ PagesIdle
SpecTimer == InitTimer /\ [][TimerNext]_vars

InitPoll == TimerIdle /\ PollInit /\ StorageInit /\ RoomIdle /\ PagesIdle
SpecPoll == InitPoll /\ [][PollNext]_vars

InitStorage == TimerIdle /\ PollIdle /\ StorageInit /\ RoomIdle /\ PagesIdle
SpecStorage == InitStorage /\ [][StorageNext]_vars

InitApi == TimerIdle /\ PollIdle /\ ApiInit /\ RoomIdle /\ PagesIdle
SpecApi == InitApi /\ [][ApiNext]_vars

\* In the story room the timer is left out: it is taken as not yet expired.
\* The session is active (SpecChat has the room of a completed session).
InitRoom ==
    /\ TimerIdle
    /\ PollIdle
    /\ RoomInit
    /\ srvStatus = "active"
    /\ PagesIdle
SpecRoom == InitRoom /\ [][RoomNext]_vars

\* The story room of a team that has no story yet: the first loadStory
\* creates it
InitRoomFair == InitRoom /\ srvStories = 0

\* The story room with its scheduling: the interval of usePoll keeps firing
\* while the page is mounted, and every request sent is answered or fails
\* in the end, so the loadStory invocations in flight go on.
SpecRoomFair ==
    /\ InitRoomFair
    /\ [][RoomNext]_vars
    /\ WF_vars(RoomPollTick)
    /\ WF_vars(LoadStep)

(***************************************************************************)
(* Properties                                                              *)
(***************************************************************************)
NonBlank(v) == Truthy(v) /\ Trim(v) # <<>>

HasHeader(h, name, value) == name \in DOMAIN h /\ h[name] = value

\* C1: useTimer with a positive integer duration D.  Once D interval ticks
\* have run since construction or reset (ticks run only while the timer is
\* running and unpaused), onExpire has been invoked exactly once, timeLeft is
\* 0, isExpired is true, isRunning is false and the interval is cleared, so
\* no further tick runs; before the D-th tick onExpire has not been invoked.
C1_TimerExpiresExactlyOnce ==
    /\ ticks <= duration
    /\ ticks < duration => expireCalls = 0 /\ ~isExpired /\ timeLeft = duration - ticks
    /\ ticks >= duration =>
          /\ expireCalls = 1
          /\ timeLeft = 0
          /\ isExpired
          /\ ~isRunning
          /\ ~intervalArmed

\* C1 witness: a timer of more than one second has run its D ticks and
\* fired its callback.
C1_Witness ==
    /\ duration > 1
    /\ ticks = duration
    /\ expireCalls = 1
    /\ showAnalyzerModal

\* C4: usePoll.  While enabled (and mounted), the callback has been invoked
\* once at once and once per elapsed interval period, N + 1 times after N
\* periods (hence at least N); while disabled it has not been invoked at
\* all, however many periods went by.
C4_PollInvocations ==
    /\ (pollEnabled /\ pollMounted) => pollCalls = pollPeriods + 1
    /\ ~pollEnabled => pollCalls = 0

\* C4 witness: polling that was switched off and on again has run for two
\* periods.
C4_Witness ==
    /\ pollEnabled
    /\ pollToggles = 2
    /\ pollPeriods >= 2
    /\ pollCalls = pollPeriods + 1

\* C5: usePoll.  Whatever invocations of the callback threw or rejected,
\* the interval of an enabled, mounted poll loop stays armed and every
\* elapsed period has produced its invocation.
C5_FailedTickKeepsPolling ==
    (pollFailures > 0 /\ pollEnabled /\ pollMounted) =>
        /\ pollArmed
        /\ pollCalls = pollPeriods + 1

\* C5 witness: two invocations failed and two more were started after a
\* failure.
C5_Witness ==
    /\ pollEnabled
    /\ pollMounted
    /\ pollFailures >= 2
    /\ pollCallsAfterFailure >= 2
    /\ pollArmed

HasOptimistic == \E k \in 1..Len(messages) : IsOptimistic(messages[k])

\* C2 (as stated): when the add-sentence call has failed and the 500 ms
\* check runs, the send is treated as successful (no failure notice, input
\* left as it is) if the refetch reported a turn with the sent text and the
\* sender's name; otherwise the optimistic message is removed and the input
\* is restored to the sent text.
C2_ReconciliationFollowsRefetch ==
    [][SendTimeout =>
         IF send.refetchHad
         THEN /\ messages'[Len(messages')] # SystemMessage("sendfail")
              /\ currentSentence' = currentSentence
         ELSE /\ \A k \in 1..Len(messages') : ~IsOptimistic(messages'[k])
              /\ currentSentence' = send.text]_vars

\* C3: whenever a loadStory invocation completes (turns fetched, story
\* created, or failure caught) the displayed list holds no optimistic
\* message and no system pseudo-message; and with the poll loop running and
\* requests settling, a displayed optimistic message is always replaced or
\* removed in the end.
C3_OptimisticMessagesProvisional ==
    /\ [][LoadCompletes =>
            \A k \in 1..Len(messages') :
                ~IsOptimistic(messages'[k]) /\ ~IsSystem(messages'[k])]_vars
    /\ (HasOptimistic ~> ~HasOptimistic)

\* C3 witness: the refetch of a send has completed and replaced the
\* optimistic message by the server turn carrying the sent text.
C3_Witness ==
    /\ send.pc = "refetched"
    /\ send.refetchHad
    /\ ~HasOptimistic
    /\ Len(messages) = 1
    /\ messages[1].id = <<"turn", 1>>
    /\ messages[1].text = send.text

\* C6 (as stated): during one visit to the story room of a team without a
\* story the client sends at most one create-story request.
C6_AtMostOneCreateRequest == createRequests <= 1

\* C7 (as stated): with a nickname N and a team code C stored, every HTTP
\* request the client sends carries X-Nickname: N and X-Team-Code: C.
C7_EveryRequestCarriesIdentity ==
    (/\ lastOp.requests > 0
     /\ lastOp.readOk
     /\ NonBlank(lastOp.storedNick)
     /\ NonBlank(lastOp.storedTeam)) =>
        /\ HasHeader(lastOp.headers, "X-Nickname", lastOp.storedNick)
        /\ HasHeader(lastOp.headers, "X-Team-Code", lastOp.storedTeam)

\* C7 (amended): with a non-blank nickname N and team code C stored and
\* readable, every request sent through apiRequest (every apiClient method,
\* the admin methods with their own headers merged on top included)
\* carries X-Nickname: N and X-Team-Code: C verbatim; the two token
\* validation requests of handleTokenLogin and checkAuth are sent with
\* fetch directly and carry X-Admin-Token only.
C7_ApiRequestCarriesIdentity ==
    /\ (/\ lastOp.via = "apiRequest"
        /\ lastOp.readOk
        /\ NonBlank(lastOp.storedNick)
        /\ NonBlank(lastOp.storedTeam)) =>
           /\ lastOp.requests = 1
           /\ HasHeader(lastOp.headers, "X-Nickname", lastOp.storedNick)
           /\ HasHeader(lastOp.headers, "X-Team-Code", lastOp.storedTeam)
    /\ lastOp.via = "fetch" => DOMAIN lastOp.headers = {"X-Admin-Token"}

\* C7 witness: an admin request went out with the token header merged over
\* the identity headers, the stored nickname having a trailing blank.
C7_Witness ==
    /\ lastOp.caller = "admin.createRoom"
    /\ lastOp.requests = 1
    /\ lastOp.storedNick = <<"a", " ">>
    /\ NonBlank(lastOp.storedTeam)
    /\ "X-Admin-Token" \in DOMAIN lastOp.headers
    /\ HasHeader(lastOp.headers, "X-Nickname", <<"a", " ">>)

\* C8 (as stated): with no admin token in storage, every method of
\* apiClient.admin fails synchronously and sends no request.
C8_EveryAdminMethodThrows ==
    (lastOp.caller \in AdminMethods /\ ~lastOp.hadToken /\ lastOp.readOk) =>
        /\ lastOp.outcome = "threw"
        /\ lastOp.requests = 0

\* C8 (amended): with no admin token in storage, every token-gated method
\* of apiClient.admin fails before any request is sent: deleteSession and
\* startSession, being async, with a rejected promise, the others with a
\* synchronous throw; logout takes no token, sends no request and succeeds
\* when storage can be written.
C8_TokenGatedFailWithoutRequest ==
    /\ (lastOp.caller \in TokenGatedMethods /\ ~lastOp.hadToken) =>
           /\ lastOp.requests = 0
           /\ lastOp.outcome =
                 IF lastOp.caller \in AsyncAdminMethods THEN "rejected"
                 ELSE "threw"
    /\ lastOp.caller = "admin.logout" =>
           /\ lastOp.requests = 0
           /\ lastOp.readOk => lastOp.outcome = "resolved"

\* C8 witness: after a login and a logout, a token-gated method was called
\* with no token stored.
C8_Witness ==
    /\ lastOp.caller = "admin.getDashboard"
    /\ ~lastOp.hadToken
    /\ lastOp.readOk
    /\ lastOp.outcome = "threw"

\* C9 (as stated): a read after a successful write of any non-empty string
\* s returns exactly s.
C9_RoundTripEveryNonEmpty ==
    (/\ lastCall.op = "get"
     /\ ~lastCall.threw
     /\ written[lastCall.key] \in Strings
     /\ written[lastCall.key] # <<>>) =>
        lastCall.result = written[lastCall.key]

\* C9 (amended): when the underlying storage accepts the write and the
\* read, reading a key after writing s returns exactly s for every s that
\* has a non-whitespace character, and null for an empty or
\* whitespace-only s; reading a key that was never set, or was cleared,
\* returns null.
C9_RoundTripNonBlank ==
    (lastCall.op = "get" /\ ~lastCall.threw) =>
        LET w == written[lastCall.key] IN
        /\ w = Null => lastCall.result = Null
        /\ w \in Strings =>
              lastCall.result = IF Trim(w) # <<>> THEN w ELSE Null

\* C9 witness: a string with a trailing blank was written and read back
\* unchanged.
C9_Witness ==
    /\ lastCall.op = "get"
    /\ lastCall.key = "teamCode"
    /\ ~lastCall.threw
    /\ written["teamCode"] = <<"a", " ">>
    /\ lastCall.result = <<"a", " ">>

\* C10: when the underlying storage throws, getNickname/getTeamCode return
\* null, setNickname/setTeamCode/clear return normally, nothing is thrown
\* to the caller, and a failed write is attempted once only.
C10_StorageErrorsContained ==
    /\ ~lastCall.escaped
    /\ lastCall.threw =>
          /\ lastCall.op = "get" => lastCall.result = Null
          /\ lastCall.op = "set" => lastCall.attempts = 1

\* C11: every apiRequest invocation makes exactly one network attempt; a
\* non-2xx response rejects with an error carrying the status code and the
\* status text, a 2xx response whose body is not JSON rejects, a network
\* failure rejects, and a 2xx response with a JSON body resolves -- with one
\* attempt in every case.
C11_OneAttemptNoRetry ==
    lastOp.via = "apiRequest" =>
        LET resp == lastOp.response IN
        /\ lastOp.requests = 1
        /\ (resp.kind = "http" /\ ~ResponseOk(resp)) =>
               /\ lastOp.outcome = "rejected"
               /\ lastOp.error = <<"HTTP", resp.status, resp.statusText>>
        /\ (resp.kind = "http" /\ ResponseOk(resp) /\ ~resp.json) =>
               /\ lastOp.outcome = "rejected"
               /\ lastOp.error = <<"SyntaxError">>
        /\ resp.kind = "network" => lastOp.outcome = "rejected"
        /\ (resp.kind = "http" /\ ResponseOk(resp) /\ resp.json) =>
               lastOp.outcome = "resolved"

\* C11 witness: an add-sentence call was answered 400 Bad Request and
\* failed with that status after one attempt.
C11_Witness ==
    /\ lastOp.caller = "stories.addSentence"
    /\ lastOp.response.status = 400
    /\ lastOp.error = <<"HTTP", 400, "Bad Request">>
    /\ lastOp.requests = 1

\* C12: when loadStory has fetched the turns t1..tn, the displayed list
\* becomes exactly n messages, message k carrying the id and the content of
\* turn k, in the order of the response, whatever was displayed before.
C12_WholesaleReplaceInOrder ==
    [][\A i \in 1..MaxLoads :
          LoadTurnsReceived(i) =>
              /\ Len(messages') = Len(loads[i].turns)
              /\ \A k \in 1..Len(loads[i].turns) :
                     /\ messages'[k].id = <<"turn", loads[i].turns[k].id>>
                     /\ messages'[k].text = loads[i].turns[k].text]_vars

\* C12 witness: a response holding turn 2 before turn 1 has replaced a
\* list that showed an optimistic message; the list shows turn 2, turn 1.
C12_Witness ==
    /\ loads[1] = FreeLoad
    /\ Len(srvTurns) = 2
    /\ srvTurns[1].id = 2
    /\ srvTurns[2].id = 1
    /\ Len(messages) = 2
    /\ messages[1].id = <<"turn", 2>>
    /\ messages[2].id = <<"turn", 1>>

\* C13: loadStory invocations are neither cancelled nor sequenced: when
\* the turns response of any invocation arrives, the turns it holds replace
\* the displayed list, also when the list already shows more turns than the
\* response holds -- the displayed turns go back to an earlier server state.
C13_StaleResponseOverwrites ==
    [][\A i \in 1..MaxLoads :
          LoadTurnsReceived(i) =>
              /\ ShownTurns(messages') = ConvertTurns(loads[i].turns)
              /\ Len(loads[i].turns) <= Len(srvTurns)
              /\ \A k \in 1..Len(loads[i].turns) :
                     loads[i].turns[k] = srvTurns[k]]_vars

\* C13 witness: of two overlapping loadStory invocations the one started on
\* mount was answered before a turn was added and completed last: the list,
\* which showed the turn, shows no turn although the story has one.
C13_Witness ==
    /\ staleShown
    /\ ShownTurns(messages) = <<>>
    /\ Len(srvTurns) = 1
    /\ \A i \in 1..MaxLoads : loads[i] = FreeLoad

\* C14: usePoll has no mutual exclusion: an interval period that elapses
\* while invocations of the callback are still pending starts one more, so
\* two invocations are in flight together.
C14_TickStartsWhileInFlight ==
    [][(PollPeriodElapses /\ pollArmed /\ pollInFlight > 0) =>
          /\ pollCalls' = pollCalls + 1
          /\ pollInFlight' \in {pollInFlight, pollInFlight + 1}]_vars

\* C14 witness: two invocations of the callback are pending at once.
C14_Witness ==
    /\ pollInFlight >= 2
    /\ pollArmed
    /\ pollPeriods >= 1

\* C15: once enabled is false or the component is unmounted the interval
\* is cleared and the loop starts no invocation, however many periods go
\* by; disabling and unmounting leave the pending invocations alone.
C15_PollCancellation ==
    /\ []((~pollEnabled \/ ~pollMounted) => (~pollArmed /\ pollLateCalls = 0))
    /\ [][(PollUnmount \/ (PollSetEnabled /\ pollEnabled)) =>
             pollInFlight' = pollInFlight]_vars

\* C15 witness: the component unmounted with an invocation pending, and
\* periods have gone by since without an invocation.
C15_Witness ==
    /\ ~pollMounted
    /\ pollEnabled
    /\ pollInFlight > 0
    /\ pollPeriods > pollCalls
    /\ pollLateCalls = 0

\* C16: for every accepted send the optimistic message is appended and
\* the input cleared in the step that issues the add-sentence request, and
\* when that request settles, with success or with failure, a loadStory
\* invocation is started.
C16_SendOrdering ==
    [][/\ (HandleSendSentence /\ SendGuard(currentSentence, currentStory)) =>
            /\ send.pc = "idle" /\ send'.pc = "adding"
            /\ messages' = Append(messages,
                                  OptimisticMessage(Trim(currentSentence),
                                                    SenderNickname))
            /\ currentSentence' = <<>>
            /\ loads' = loads
       /\ SendAddSentenceSettles =>
            /\ send.pc = "adding" /\ send'.pc = "refetch"
            /\ \E i \in 1..MaxLoads :
                  /\ loads[i] = FreeLoad
                  /\ loads'[i] = StartedLoad("send")
                  /\ \A j \in 1..MaxLoads \ {i} : loads'[j] = loads[j]]_vars

\* C16 witness: an add-sentence call has failed and the refetch that
\* followed it has completed.
C16_Witness ==
    /\ send.pc = "refetched"
    /\ ~send.ok
    /\ send.text = <<"a">>

\* C17: when handleSendSentence runs with a blank input or without a
\* current story, no request goes out (no add-sentence call, no loadStory),
\* no optimistic message is appended, the input and isLoading stay as they
\* are, and the one change is an error system message at the end of the
\* list.
C17_MissingPreconditionFailsFast ==
    [][(HandleSendSentence
        /\ (Trim(currentSentence) = <<>> \/ currentStory = Null)) =>
            /\ messages' = Append(messages, SystemMessage("cannot"))
            /\ currentSentence' = currentSentence
            /\ isLoading' = isLoading
            /\ send' = send
            /\ loads' = loads
            /\ srvTurns' = srvTurns]_vars

\* C17 witness: the handler ran with a sentence typed but no story loaded,
\* and the list ends with the error message while the sentence is still in
\* the input.
C17_Witness ==
    /\ currentStory = Null
    /\ currentSentence = <<"a">>
    /\ send = IdleSend
    /\ Len(messages) > 0
    /\ messages[Len(messages)] = SystemMessage("cannot")
    /\ \A k \in 1..Len(messages) : ~IsOptimistic(messages[k])

\* C18: pause stops the countdown: it leaves timeLeft and isExpired as
\* they are and invokes nothing; while the timer is not running no tick
\* runs, so timeLeft, isExpired and the count of expiry callbacks change
\* only by reset; and start on a paused, unexpired timer resumes from the
\* value timeLeft had at the pause.
C18_PauseKeepsTimeLeft ==
    /\ [](~isRunning => ~intervalArmed)
    /\ [][TimerPause =>
             /\ ~isRunning'
             /\ timeLeft' = timeLeft
             /\ isExpired' = isExpired
             /\ expireCalls' = expireCalls]_vars
    /\ [][(~isRunning /\ ~TimerReset) =>
             /\ timeLeft' = timeLeft
             /\ isExpired' = isExpired
             /\ expireCalls' = expireCalls]_vars
    /\ [][(TimerStart /\ ~isRunning /\ ~isExpired /\ timeLeft > 0) =>
             /\ isRunning'
             /\ intervalArmed'
             /\ timeLeft' = timeLeft]_vars

\* C18 witness: an auto-started timer stands paused in the middle of its
\* countdown.
C18_Witness ==
    /\ autoStart
    /\ ~isRunning
    /\ ~isExpired
    /\ ticks >= 2
    /\ timeLeft = duration - ticks
    /\ timeLeft > 0
    /\ expireCalls = 0

\* C19: reset, from any state, sets timeLeft to the duration given in the
\* options and isExpired to false, and leaves the timer running exactly
\* when autoStart is set.
C19_ResetRestoresDuration ==
    [][TimerReset =>
          /\ timeLeft' = duration
          /\ ~isExpired'
          /\ isRunning' = autoStart
          /\ intervalArmed' = autoStart]_vars

\* C19 witness: a timer without autoStart that had expired has been reset
\* and stands stopped at its full duration.
C19_Witness ==
    /\ ~autoStart
    /\ showAnalyzerModal
    /\ ticks = 0
    /\ timeLeft = duration
    /\ ~isExpired
    /\ ~isRunning
    /\ duration > 1

C21_LeaderboardOrderedByScore ==
    lbPc = "done" =>
        /\ {teams[k].id : k \in 1..Len(teams)}
             = {lbResponse[k].team_code : k \in
                  {j \in 1..Len(lbResponse) :
                      lbResponse[j].session_status = "completed"}}
        /\ \A j, k \in 1..Len(teams) : j # k => teams[j].id # teams[k].id
        /\ \A k \in 1..(Len(teams) - 1) :
              teams[k].finalScore >= teams[k + 1].finalScore

\* C22: while the room shows the session as completed, or its timer has
\* expired, no step sends an add-sentence request and no step sends an
\* add-twist request, whether the room is open for a participant or for a
\* moderator.
C22_NoRequestsAfterSessionEnd ==
    [][(sessionStatus = "completed" \/ isExpired) =>
          /\ ~(send.pc = "idle" /\ send'.pc = "adding")
          /\ ~(twist.pc = "idle" /\ twist'.pc = "adding")]_vars

\* C23: on the route of team T the list request is sent for T, and the
\* summary and the statistics shown are those of the turns of T's story,
\* whatever team code the browser storage holds.
C23_SummaryOfRoutedTeam ==
    /\ smPc \in {"list", "turns", "done"} => smListTeam = smRoute
    /\ smPc = "done" =>
          /\ \A k \in 1..Len(summary) : summary[k].content = smRoute
          /\ stats = SummaryStats(TurnsOfTeam(smRoute, smServer[smRoute]))

\* C25: a server turn that both views have loaded is a twist in the story
\* room exactly when it is a twist in the story summary.
C25_TwistClassificationAgrees ==
    (clsRoom # "none" /\ clsSummary # "none") => clsRoom = clsSummary

\* C24: a loadStory schedules the welcome message only as the first load
\* of the visit: never as the refetch that follows a send, and never when
\* the list already shows the welcome message of an earlier load.
C24_WelcomeOnlyOnFirstLoad ==
    [][\A i \in 1..MaxLoads :
          (LoadTurnsReceived(i) /\ welcomeTimers' > welcomeTimers) =>
              /\ loads[i].origin # "send"
              /\ \A k \in 1..Len(messages) :
                    messages[k] # SystemMessage("welcome")]_vars

\* C26 as claimed: every join request sent carries the trimmed username as
\* X-Nickname and the normalized team id as X-Team-Code.
C26_JoinRequestAlwaysCarriesEntered ==
    tsPc = "joining" =>
        /\ joinRequest["X-Nickname"] = Trim(tempUsername)
        /\ joinRequest["X-Team-Code"] = CleanTeamId(teamId)

\* C26, amended: handleJoinTeam with a blank field writes nothing and sends
\* nothing; otherwise the join request it sends is built from storage as
\* the two writes left it: it carries the trimmed username as X-Nickname
\* when the nickname write took effect, and the normalized team id as
\* X-Team-Code when the team code write took effect.
C26_JoinRequestCarriesStored ==
    [][HandleJoinTeam =>
          /\ ~JoinGuard(teamId, tempUsername) =>
                /\ ls' = ls
                /\ joinRequest' = NoHeaders
                /\ tsPc' = "rejected"
          /\ tsPc' = "joining" =>
                /\ JoinGuard(teamId, tempUsername)
                /\ ls'["nickname"] = Trim(tempUsername) =>
                      joinRequest'["X-Nickname"] = Trim(tempUsername)
                /\ ls'["teamCode"] = CleanTeamId(teamId) =>
                      joinRequest'["X-Team-Code"] = CleanTeamId(teamId)]_vars

\* C26 witness: the form held " a" and "A a" over a stored identity "b";
\* the request sent carries a and a_a.
C26_Witness ==
    /\ tsPc = "joining"
    /\ tempUsername = <<" ", "a">>
    /\ teamId = <<"A", " ", "a">>
    /\ ls["nickname"] = <<"a">>
    /\ ls["teamCode"] = <<"a", "_", "a">>
    /\ joinRequest["X-Nickname"] = <<"a">>
    /\ joinRequest["X-Team-Code"] = <<"a", "_", "a">>

\* C27: the room is navigated to only after the join request succeeded;
\* when the request fails there is no navigation, isJoining is false again
\* and storage stays as handleJoinTeam wrote it.
C27_NavigationOnlyAfterJoin ==
    /\ [](navigatedTo # Null => joinOutcome = "ok")
    /\ [](joinOutcome = "error" => (navigatedTo = Null /\ ~isJoining))
    /\ [][JoinSettles => (ls' = ls /\ ~isJoining')]_vars

\* C27 witness: the join request failed after "a" and "a" were written
\* over a stored "b"; the form is still shown and storage holds a / a.
C27_Witness ==
    /\ joinOutcome = "error"
    /\ tsPc = "failed"
    /\ navigatedTo = Null
    /\ ~isJoining
    /\ ls["nickname"] = <<"a">>
    /\ ls["teamCode"] = <<"a">>
    /\ joinRequest["X-Nickname"] = <<"a">>

\* C28 (as claimed): the admin token is written to storage only by a
\* handleTokenLogin whose validation request was answered with an ok
\* status; the wrapper renders the protected page only after an ok answer
\* for the token it read from storage, and a check that ends any other way
\* leaves no token in storage and the login page shown; after a logout
\* that returned, storage holds no token, and with no token a token-gated
\* call issues no request.
C28_AdminTokenLifecycle ==
    /\ [][(ls'["adminToken"] # ls["adminToken"] /\ ls'["adminToken"] # Null)
           => /\ adminLogin.pc = "fetching"
              /\ adminLogin'.answer = "ok"
              /\ ls'["adminToken"] = adminLogin.token]_vars
    /\ [](ProtectedPageRendered
           => checkAuth.answer = "ok" /\ Truthy(checkAuth.token))
    /\ [](checkAuth.pc \in {"done", "threw", "redirected"}
           => \/ ProtectedPageRendered
              \/ adminRoute = "login" /\ ~Truthy(ls["adminToken"]))
    /\ [][(lastOp' # lastOp /\ lastOp'.caller = "admin.logout"
            /\ lastOp'.outcome = "resolved")
           => ls'["adminToken"] = Null]_vars
    /\ [][(lastOp' # lastOp /\ lastOp'.caller \in TokenGatedMethods
            /\ ~Truthy(ls["adminToken"]))
           => lastOp'.requests = 0]_vars

\* C29 (as claimed): when confirmDeleteSession settles, deletingSessionId
\* and sessionToDelete are null and the modal is closed; a failed delete
\* leaves the displayed list as it was; and a session whose delete
\* succeeded is never displayed again, whatever dashboard refresh was in
\* flight when the delete completed.
C29_DeletedSessionStaysAbsent ==
    /\ [][(deleteRequest \in {"ok", "failed"} /\ deleteRequest' = "none")
           => /\ deletingSessionId' = Null
              /\ sessionToDelete' = Null
              /\ ~showDeleteModal'
              /\ (deleteOutcome' = "failed" => sessions' = sessions)
              /\ (deleteOutcome' = "ok"
                    => deletingSessionId \notin IdsOf(sessions'))]_vars
    /\ [](\A id \in deleted : id \notin IdsOf(sessions))

\* C30: in every reachable state of useTimer (the duration is positive),
\* 0 <= timeLeft <= duration, an expired timer shows 0 and is not running,
\* and a timer showing 0 is expired; while the timer stays expired no call
\* (start included) changes timeLeft or isRunning, and the only step that
\* leaves the expired state is reset, which restores the full duration.
C30_TimerStateInvariant ==
    /\ [](duration > 0 /\ 0 <= timeLeft /\ timeLeft <= duration)
    /\ [](isExpired => timeLeft = 0 /\ ~isRunning /\ ~intervalArmed)
    /\ [](timeLeft = 0 => isExpired)
    /\ [][(isExpired /\ isExpired')
           => (timeLeft' = timeLeft /\ isRunning' = isRunning)]_vars
    /\ [][(isExpired /\ ~isExpired')
           => (timeLeft' = duration /\ isRunning' = autoStart)]_vars

\* C30 witness: a timer of at least two seconds has run down and expired.
C30_Witness ==
    /\ duration >= 2
    /\ isExpired
    /\ timeLeft = 0
    /\ ticks >= duration

\* C10 witness: a write of "a" failed over a stored " a".
C10_Witness ==
    /\ lastCall.op = "set"
    /\ lastCall.threw
    /\ lastCall.arg = <<"a">>
    /\ ls[lastCall.key] = <<" ", "a">>

====
